---- MODULE Spec2Model ----
(***************************************************************************)
(* brine: the MIR data model (mir.rs), the control-flow graph builder      *)
(* (cfg.rs, lib.rs), the explicit-continuation interpreter Miri (miri.rs)  *)
(* and its line driver (bin/miri.rs).                                      *)
(***************************************************************************)
EXTENDS Integers, Sequences, FiniteSets, TLC

VARIABLES
    debug_assertions,  \* the build profile: debug_assert! and overflow checks compiled in
    program,           \* run: the expression handed to run
    stack,             \* run: the continuation stack, top at the end
    value,             \* run: the current-value register
    frames,            \* run: the Environment allocations, an RcEnv is an index into them
    result,            \* run: running, or what run returned, or the panic that ended it
    trace,             \* run: the continuations the loop has popped so far, in order
    blocks,            \* Cfg.blocks
    return_block_id,   \* Cfg.return_block_id
    current_block,     \* Cfg.current_block
    new_block,         \* the BlockId the last add_block returned, if any
    compiler,          \* lib.rs: the Compiler's current_block and return_block
    cfg_panic,         \* the panic that ended the builder's process, if any
    stack_positions,   \* lib.rs: Compiler.stack_positions, the slot of each name, if any
    next_stack_slot,   \* lib.rs: Compiler.next_stack_slot
    mir_result,        \* stmt.rs: what the last compile_stmt returned, if any
    mir_in,            \* mir.rs: the expression the transforms are applied to
    desugared,         \* mir.rs: desugar(mir_in), desugar of that, ...
    lexpr,             \* mir.rs: the lexpr::Value encoded or handed to the decoder
    decoded,           \* mir.rs: what lexpr_to_mir returned for lexpr
    lines,             \* bin/miri.rs: the lines of standard input
    line_no,           \* bin/miri.rs: how many lines the loop has taken
    output,            \* bin/miri.rs: the lines printed so far
    driver             \* bin/miri.rs: where main is

vars == <<debug_assertions, program, stack, value, frames, result, trace,
          blocks, return_block_id, current_block, new_block, compiler, cfg_panic,
          stack_positions, next_stack_slot, mir_result,
          mir_in, desugared, lexpr, decoded, lines, line_no, output, driver>>

miri_vars == <<program, stack, value, frames, result, trace>>
stmt_vars == <<stack_positions, next_stack_slot, mir_result>>
cfg_vars == <<blocks, return_block_id, current_block, new_block, compiler, cfg_panic,
              stmt_vars>>
mir_vars == <<mir_in, desugared, lexpr, decoded>>
driver_vars == <<lines, line_no, output, driver>>

None == [some |-> FALSE]
Some(x) == [some |-> TRUE, v |-> x]

(***************************************************************************)
(* i64.  TLC's integers are 32 bits wide, so an exact integer is a sign    *)
(* and a magnitude in little-endian limbs; an i64 is an exact integer of   *)
(* the range I64_MIN..I64_MAX.                                             *)
(***************************************************************************)
Base == 2^15

(* the largest element of a non-empty set of integers *)
Max(S) == CHOOSE k \in S : \A j \in S : j <= k

(* m without its leading zero limbs *)
MagNorm(m) ==
    LET nz == {k \in 1..Len(m) : m[k] # 0}
    IN  IF nz = {} THEN <<>> ELSE SubSeq(m, 1, Max(nz))

RECURSIVE MagOfNat(_)
MagOfNat(n) == IF n = 0 THEN <<>> ELSE <<n % Base>> \o MagOfNat(n \div Base)

Limb(m, k) == IF k <= Len(m) THEN m[k] ELSE 0
Longer(a, b) == IF Len(a) > Len(b) THEN Len(a) ELSE Len(b)

(* a + b: limb k takes a carry when a lower limb generates one and every
   limb between passes it on *)
MagAdd(a, b) ==
    IF a = <<>> THEN b
    ELSE IF b = <<>> THEN a
    ELSE LET sum(k) == Limb(a, k) + Limb(b, k)
             carry(k) ==
                 IF \E j \in 1..(k - 1) :
                        sum(j) >= Base /\ \A i \in (j + 1)..(k - 1) : sum(i) = Base - 1
                 THEN 1 ELSE 0
         IN  MagNorm([k \in 1..(Longer(a, b) + 1) |-> (sum(k) + carry(k)) % Base])

MagCmp(a, b) ==
    IF a = b THEN 0
    ELSE IF Len(a) # Len(b) THEN (IF Len(a) < Len(b) THEN -1 ELSE 1)
    ELSE LET top == Max({k \in 1..Len(a) : a[k] # b[k]})
         IN  IF a[top] < b[top] THEN -1 ELSE 1

(* a - b, for a >= b: limb k lends when a lower limb borrows and every limb
   between passes the borrow on *)
MagSub(a, b) ==
    IF a = b THEN <<>>
    ELSE LET borrow(k) ==
                 IF \E j \in 1..(k - 1) :
                        Limb(a, j) < Limb(b, j) /\ \A i \in (j + 1)..(k - 1) : Limb(a, i) = Limb(b, i)
                 THEN 1 ELSE 0
         IN  MagNorm([k \in 1..Len(a) |-> (Limb(a, k) - Limb(b, k) - borrow(k) + Base) % Base])

(* m * Base^n *)
MagShift(m, n) == IF m = <<>> THEN <<>> ELSE [k \in 1..n |-> 0] \o m

(* a * d for one limb d: the low halves of the products plus their high
   halves one limb up *)
MagMulLimb(a, d) ==
    IF a = <<>> \/ d = 0 THEN <<>>
    ELSE MagAdd(MagNorm([k \in 1..Len(a) |-> (a[k] * d) % Base]),
                MagShift(MagNorm([k \in 1..Len(a) |-> (a[k] * d) \div Base]), 1))

(* a times the limbs lo..hi of b, each at its place *)
RECURSIVE MagMulRange(_, _, _, _)
MagMulRange(a, b, lo, hi) ==
    IF lo = hi THEN MagShift(MagMulLimb(a, b[lo]), lo - 1)
    ELSE MagAdd(MagMulRange(a, b, lo, (lo + hi) \div 2),
                MagMulRange(a, b, (lo + hi) \div 2 + 1, hi))

MagMul(a, b) == IF a = <<>> \/ b = <<>> THEN <<>> ELSE MagMulRange(a, b, 1, Len(b))

(* the quotient limb of r by d, for r < d * Base and the top limb of d at
   least Base / 2: the estimate from the top limbs is at most 2 too large *)
QuotLimb(r, d) ==
    IF MagCmp(r, d) < 0 THEN 0
    ELSE LET n == Len(d)
             top == (Limb(r, n + 1) * Base + r[n]) \div d[n]
             est == IF top > Base - 1 THEN Base - 1 ELSE top
         IN  IF MagCmp(MagMulLimb(d, est), r) <= 0 THEN est
             ELSE IF MagCmp(MagMulLimb(d, est - 1), r) <= 0 THEN est - 1
             ELSE est - 2

(* long division of the limbs k.. of a by d *)
RECURSIVE MagDivModFrom(_, _, _)
MagDivModFrom(a, d, k) ==
    IF k > Len(a) THEN [q |-> <<>>, r |-> <<>>]
    ELSE LET up == MagDivModFrom(a, d, k + 1)
         IN  IF up.r = <<>> /\ a[k] = 0 THEN [q |-> <<0>> \o up.q, r |-> <<>>]
             ELSE LET cur == <<a[k]>> \o up.r
                      qd  == QuotLimb(cur, d)
                  IN  [q |-> <<qd>> \o up.q, r |-> MagSub(cur, MagMulLimb(d, qd))]

(* division by d # 0: a = q * d + r and r < d.  Both are scaled by f first,
   so that the top limb of the divisor is at least Base / 2 *)
MagDivMod(a, d) ==
    IF MagCmp(a, d) < 0 THEN [q |-> <<>>, r |-> a]
    ELSE LET f == Base \div (d[Len(d)] + 1)
             q == MagNorm(MagDivModFrom(MagMulLimb(a, f), MagMulLimb(d, f), 1).q)
         IN  [q |-> q, r |-> MagSub(a, MagMul(d, q))]

Big(neg, mag) == [neg |-> neg /\ mag # <<>>, mag |-> mag]
I(n) == IF n < 0 THEN Big(TRUE, MagOfNat(-n)) ELSE Big(FALSE, MagOfNat(n))
BigNeg(a) == Big(~a.neg, a.mag)

BigAdd(a, b) ==
    IF a.neg = b.neg THEN Big(a.neg, MagAdd(a.mag, b.mag))
    ELSE IF MagCmp(a.mag, b.mag) >= 0 THEN Big(a.neg, MagSub(a.mag, b.mag))
    ELSE Big(b.neg, MagSub(b.mag, a.mag))

BigSub(a, b) == BigAdd(a, BigNeg(b))
BigMul(a, b) == Big(a.neg # b.neg, MagMul(a.mag, b.mag))
BigLt(a, b) ==
    IF a.neg # b.neg THEN a.neg
    ELSE IF a.neg THEN MagCmp(a.mag, b.mag) > 0
    ELSE MagCmp(a.mag, b.mag) < 0
BigLe(a, b) == ~BigLt(b, a)
(* quotient truncated toward zero, remainder with the sign of the dividend *)
BigQuot(a, b) == Big(a.neg # b.neg, MagDivMod(a.mag, b.mag).q)
BigRem(a, b) == Big(a.neg, MagDivMod(a.mag, b.mag).r)

Pow2_63 == Big(FALSE, <<0, 0, 0, 0, 8>>)
Pow2_64 == Big(FALSE, <<0, 0, 0, 0, 16>>)
I64_MIN == BigNeg(Pow2_63)
I64_MAX == BigSub(Pow2_63, I(1))
InI64(a) == BigLe(I64_MIN, a) /\ BigLe(a, I64_MAX)

(* m modulo 2^64: four limbs and the low 4 bits of the fifth *)
MagMod64(m) == MagNorm([k \in 1..5 |-> IF k < 5 THEN Limb(m, k) ELSE Limb(m, k) % 16])

(* two's complement wrap-around: the i64 congruent to a modulo 2^64 *)
WrapI64(a) ==
    LET t == BigAdd(a, Pow2_63)
        m == Big(FALSE, MagMod64(t.mag))
        f == IF t.neg /\ m.mag # <<>> THEN BigSub(Pow2_64, m) ELSE m
    IN  BigSub(f, Pow2_63)

(***************************************************************************)
(* mir.rs: the MIR data model                                              *)
(***************************************************************************)
MaxSlot == 1

(* enum Primitive; n is the usize of Get and Set, 0 for the other tags *)
Prim(p) == [p |-> p, n |-> 0]
Get(n) == [p |-> "Get", n |-> n]
Set(n) == [p |-> "Set", n |-> n]

LowLevelNames ==
    {"Plus", "Minus", "Times", "Div", "Mod", "Neg", "And", "Or", "Xor", "Cons",
     "Car", "Cdr", "Eq", "Lt", "Le", "Gt", "Ge", "BoolToInt"}

LowLevel == {Prim(p) : p \in LowLevelNames}

HighLevel ==
    {Get(n) : n \in 0..MaxSlot} \cup {Set(n) : n \in 0..MaxSlot}
        \cup {Prim(p) : p \in {"Pure", "Lift", "Then", "Y"}}

Primitive == LowLevel \cup HighLevel

(* enum MirLiteral *)
LitBool(b) == [ty |-> "Bool", b |-> b]
LitInt(i) == [ty |-> "Int", i |-> i]
LitNull == [ty |-> "Null"]

(* enum MirExpr and its constructors *)
apply(func, arg) == [tag |-> "Apply", func |-> func, arg |-> arg]
literal(ml) == [tag |-> "Literal", lit |-> ml]
if_(condition, consequent, alternative) ==
    [tag |-> "If", condition |-> condition, consequent |-> consequent,
     alternative |-> alternative]
lambda(arg, body) == [tag |-> "Lambda", arg |-> arg, body |-> body]
let_(ident, val, body) == [tag |-> "Let", ident |-> ident, value |-> val, body |-> body]
PrimitiveExpr(p) == [tag |-> "Primitive", primitive |-> p]
Ref(name) == [tag |-> "Ref", name |-> name]
Comment(text, inner) == [tag |-> "Comment", text |-> text, inner |-> inner]

nop == apply(PrimitiveExpr(Prim("Pure")), literal(LitNull))

(* lib.rs: lift, on the record of struct Value *)
lift(v) == [val |-> apply(PrimitiveExpr(Prim("Pure")), v.val), ctype |-> v.ctype, pure |-> FALSE]

(* desugar leaving the parts of a Let as they are and descending into
   applications instead *)
RECURSIVE desugar_one_level(_)
desugar_one_level(e) ==
    CASE e.tag = "Let" -> apply(lambda(e.ident, e.body), e.value)
      [] e.tag = "Apply" -> apply(desugar_one_level(e.func), desugar_one_level(e.arg))
      [] OTHER -> e

RECURSIVE desugar(_)
desugar(e) ==
    IF e.tag = "Let"
    THEN apply(lambda(e.ident, desugar(e.body)), desugar(e.value))
    ELSE e

(* Result<T, String>, and the panic that ends a call instead of a return *)
Ok(x) == [ok |-> TRUE, val |-> x]
Err(m) == [ok |-> FALSE, err |-> m]
Panic(m) == [ok |-> FALSE, panic |-> m]
IsErr(r) == ~r.ok /\ "err" \in DOMAIN r
IsPanic(r) == ~r.ok /\ "panic" \in DOMAIN r

(***************************************************************************)
(* mir.rs: the s-expression encoding.  A lexpr::Value is a record tagged   *)
(* by v; a list is a chain of Cons cells ending in Null.                   *)
(***************************************************************************)
VNull == [v |-> "Null"]
VNil == [v |-> "Nil"]
VBool(b) == [v |-> "Bool", b |-> b]
(* a Number holds an integer (int) or a float; n is its integral value *)
VNumber(n, int) == [v |-> "Number", n |-> n, int |-> int]
VSymbol(s) == [v |-> "Symbol", s |-> s]
VKeyword(s) == [v |-> "Keyword", s |-> s]
VString(s) == [v |-> "String", s |-> s]
VCons(car, cdr) == [v |-> "Cons", car |-> car, cdr |-> cdr]
VVector == [v |-> "Vector"]
VBytes == [v |-> "Bytes"]
VChar == [v |-> "Char"]

(* Value::list *)
RECURSIVE VList(_)
VList(elems) ==
    IF elems = <<>> THEN VNull ELSE VCons(Head(elems), VList(Tail(elems)))

(* Number::as_i64 *)
as_i64(num) == IF num.int /\ InI64(num.n) THEN Some(num.n) ELSE None

(* Cons::into_vec: the cars of the chain and what ends it *)
RECURSIVE into_vec(_)
into_vec(cons) ==
    IF cons.cdr.v = "Cons"
    THEN LET t == into_vec(cons.cdr)
         IN  [vec |-> <<cons.car>> \o t.vec, rest |-> t.rest]
    ELSE [vec |-> <<cons.car>>, rest |-> cons.cdr]

(* into_vec_proper with the check of the tail left out *)
into_vec_lenient(cons) == Ok(into_vec(cons).vec)

into_vec_proper(cons) ==
    LET r == into_vec(cons)
    IN  IF r.rest.v # "Null" THEN Err("improper list") ELSE Ok(r.vec)

Digit(n) == <<"0", "1", "2", "3", "4", "5", "6", "7", "8", "9">>[n + 1]

(* serde's kebab-case name of a unit variant *)
KebabName(p) ==
    CASE p = "Plus" -> "plus"      [] p = "Minus" -> "minus"
      [] p = "Times" -> "times"    [] p = "Div" -> "div"
      [] p = "Mod" -> "mod"        [] p = "Neg" -> "neg"
      [] p = "And" -> "and"        [] p = "Or" -> "or"
      [] p = "Xor" -> "xor"        [] p = "Cons" -> "cons"
      [] p = "Car" -> "car"        [] p = "Cdr" -> "cdr"
      [] p = "Eq" -> "eq"          [] p = "Lt" -> "lt"
      [] p = "Le" -> "le"          [] p = "Gt" -> "gt"
      [] p = "Ge" -> "ge"          [] p = "BoolToInt" -> "bool-to-int"
      [] p = "Pure" -> "pure"      [] p = "Lift" -> "lift"
      [] p = "Then" -> "then"      [] p = "Y" -> "y"
      [] p = "Get" -> "get"        [] p = "Set" -> "set"

(* serde_lexpr::to_string of a Primitive: a unit variant is its name, a
   newtype variant the list of its name and its field *)
PrimToString(p) ==
    IF p.p \in {"Get", "Set"}
    THEN "(" \o KebabName(p.p) \o " " \o Digit(p.n) \o ")"
    ELSE KebabName(p.p)

(* the texts the reader of serde_lexpr::from_str reads as the text t: it
   skips the white space before the datum and accepts white space after it *)
Padded(t) == {t, " " \o t, t \o " "}

(* serde_lexpr::from_str::<Primitive>: the text is read as one datum, and the
   datum is deserialized *)
PrimFromStr(s) ==
    IF \E p \in Primitive : s \in Padded(PrimToString(p))
    THEN Ok(CHOOSE p \in Primitive : s \in Padded(PrimToString(p)))
    ELSE Err("unknown variant")

RECURSIVE lexpr_to_mir(_), cons_to_mir(_), parse_kw(_, _), fold_results(_, _)

(* Itertools::fold_results over elems.into_iter().map(lexpr_to_mir) *)
fold_results(acc, elems) ==
    IF elems = <<>> THEN Ok(acc)
    ELSE LET a == lexpr_to_mir(Head(elems))
         IN  IF ~a.ok THEN a ELSE fold_results(apply(acc, a.val), Tail(elems))

parse_kw(kw, elems) ==
    CASE kw = "let" ->
           IF Len(elems) # 2 THEN Err("let must have exactly two arguments")
           ELSE LET body == lexpr_to_mir(elems[2])
                    bind == IF elems[1].v = "Cons" THEN into_vec_proper(elems[1])
                            ELSE Err("let first argument must be a pair")
                IN  IF ~body.ok THEN body
                    ELSE IF ~bind.ok THEN bind
                    ELSE IF Len(bind.val) # 2
                    THEN Err("let binding must have exactly two elements")
                    ELSE LET val == lexpr_to_mir(bind.val[2])
                         IN  IF ~val.ok THEN val
                             ELSE IF bind.val[1].v # "Symbol"
                             THEN Err("lambda first argument must be a symbol")
                             ELSE Ok(let_(bind.val[1].s, val.val, body.val))
      [] kw = "lambda" ->
           IF Len(elems) # 2 THEN Err("lambda must have exactly two arguments")
           ELSE LET body == lexpr_to_mir(elems[2])
                IN  IF ~body.ok THEN body
                    ELSE IF elems[1].v # "Symbol"
                    THEN Err("lambda first argument must be a symbol")
                    ELSE Ok(lambda(elems[1].s, body.val))
      [] kw = "if" ->
           IF Len(elems) # 3 THEN Err("if must have exactly three arguments")
           ELSE LET alternate  == lexpr_to_mir(elems[3])
                    consequent == lexpr_to_mir(elems[2])
                    condition  == lexpr_to_mir(elems[1])
                IN  IF ~alternate.ok THEN alternate
                    ELSE IF ~consequent.ok THEN consequent
                    ELSE IF ~condition.ok THEN condition
                    ELSE Ok(if_(condition.val, consequent.val, alternate.val))
      [] kw = "comment" ->
           IF Len(elems) # 2 THEN Err("comment must have exactly one argument")
           ELSE LET body == lexpr_to_mir(elems[2])
                IN  IF ~body.ok THEN body
                    ELSE IF elems[1].v # "String"
                    THEN Err("comment first argument must be a string")
                    ELSE Ok(Comment(elems[1].s, body.val))
      [] OTHER -> Err("unknown keyword")

(* cons_to_mir applying the head to the decoding of the list of the others *)
cons_to_mir_pairing(cons) ==
    LET elems == into_vec_proper(cons)
    IN  IF ~elems.ok THEN elems
        ELSE LET first == Head(elems.val)
                 rest  == Tail(elems.val)
             IN  IF first.v = "Keyword" THEN parse_kw(first.s, rest)
                 ELSE LET first_val == lexpr_to_mir(first)
                          others == lexpr_to_mir(VList(rest))
                      IN  IF ~first_val.ok THEN first_val
                          ELSE IF Len(rest) < 2 THEN fold_results(first_val.val, rest)
                          ELSE IF ~others.ok THEN others
                          ELSE Ok(apply(first_val.val, others.val))

cons_to_mir(cons) ==
    LET elems == into_vec_proper(cons)
    IN  IF ~elems.ok THEN elems
        ELSE LET first == Head(elems.val)
                 rest  == Tail(elems.val)
             IN  IF first.v = "Keyword" THEN parse_kw(first.s, rest)
                 ELSE LET first_val == lexpr_to_mir(first)
                      IN  IF ~first_val.ok THEN first_val
                          ELSE fold_results(first_val.val, rest)

lexpr_to_mir(v) ==
    CASE v.v = "Null" -> Ok(literal(LitNull))
      [] v.v = "Bool" -> Ok(literal(LitBool(v.b)))
      [] v.v = "Number" ->
           IF as_i64(v).some THEN Ok(literal(LitInt(as_i64(v).v)))
           ELSE Err("number not supported")
      [] v.v = "Symbol" ->
           IF PrimFromStr(v.s).ok THEN Ok(PrimitiveExpr(PrimFromStr(v.s).val))
           ELSE Ok(Ref(v.s))
      [] v.v = "Cons" -> cons_to_mir(v)
      [] v.v = "Keyword" -> Err("keyword at toplevel")
      [] v.v \in {"Vector", "Bytes", "Char", "Nil", "String"} ->
           Err("found unsupported object")

RECURSIVE mir_to_lexpr(_)
mir_to_lexpr(e) ==
    CASE e.tag = "Let" ->
           VList(<<VKeyword("let"),
                   VList(<<VSymbol(e.ident), mir_to_lexpr(e.value)>>),
                   mir_to_lexpr(e.body)>>)
      [] e.tag = "Lambda" ->
           VList(<<VKeyword("lambda"), VSymbol(e.arg), mir_to_lexpr(e.body)>>)
      [] e.tag = "If" ->
           VList(<<VKeyword("if"), mir_to_lexpr(e.condition),
                   mir_to_lexpr(e.consequent), mir_to_lexpr(e.alternative)>>)
      [] e.tag = "Apply" -> VList(<<mir_to_lexpr(e.func), mir_to_lexpr(e.arg)>>)
      [] e.tag = "Primitive" -> VSymbol(PrimToString(e.primitive))
      [] e.tag = "Literal" ->
           (CASE e.lit.ty = "Null" -> VNull
              [] e.lit.ty = "Int" -> VNumber(e.lit.i, TRUE)
              [] e.lit.ty = "Bool" -> VBool(e.lit.b))
      [] e.tag = "Ref" -> VSymbol(e.name)
      [] e.tag = "Comment" -> VList(<<VString(e.text), mir_to_lexpr(e.inner)>>)

(***************************************************************************)
(* miri.rs: runtime objects, continuations, environments                   *)
(***************************************************************************)
(* enum Obj *)
ObjBool(b) == [kind |-> "Bool", b |-> b]
ObjInt(i) == [kind |-> "Int", i |-> i]
ObjNull == [kind |-> "Null"]
ObjLambda(env, arg, body) == [kind |-> "Lambda", env |-> env, arg |-> arg, body |-> body]
ObjCurried(primitive, args) ==
    [kind |-> "CurriedPrimitive", primitive |-> primitive, args |-> args]
ObjCons(car, cdr) == [kind |-> "Cons", car |-> car, cdr |-> cdr]

(* enum Continuation *)
ContEval(expr, environment) == [k |-> "Eval", expr |-> expr, environment |-> environment]
ContIf(consequent, alternative, environment) ==
    [k |-> "If", consequent |-> consequent, alternative |-> alternative,
     environment |-> environment]
ContEvFun(arg, environment) == [k |-> "EvFun", arg |-> arg, environment |-> environment]
ContApply(func, environment) == [k |-> "Apply", func |-> func, environment |-> environment]

(* struct Environment; Environment::default() is the frame run starts from *)
Environment(parent, bindings) == [parent |-> parent, bindings |-> bindings]
top_level == 1

(* self.0.bindings.iter().find(|b| b.0 == name) *)
RECURSIVE FindBinding(_, _)
FindBinding(bindings, name) ==
    IF bindings = <<>> THEN None
    ELSE IF Head(bindings)[1] = name THEN Some(Head(bindings)[2])
    ELSE FindBinding(Tail(bindings), name)

(* RcEnv::find_value, over the allocations frs *)
RECURSIVE find_value(_, _, _)
find_value(frs, env, name) ==
    LET b == FindBinding(frs[env].bindings, name)
    IN  IF b.some THEN b
        ELSE IF frs[env].parent.some THEN find_value(frs, frs[env].parent.v, name)
        ELSE None

(* the activations of find_value that are on the native stack when the
   lookup reaches its last frame: each frame without the binding calls
   p.find_value(name) on its parent *)
RECURSIVE find_value_calls(_, _, _)
find_value_calls(frs, env, name) ==
    IF FindBinding(frs[env].bindings, name).some \/ ~frs[env].parent.some THEN 1
    ELSE 1 + find_value_calls(frs, frs[env].parent.v, name)

(* the native nesting a lookup can have in the build: the call on the parent
   is a tail call, which a build without optimisation keeps as a call and an
   optimised build may or may not turn into a jump *)
find_value_nesting(frs, env, name) ==
    IF debug_assertions THEN {find_value_calls(frs, env, name)}
    ELSE {1, find_value_calls(frs, env, name)}

(* RcEnv::with_value: the allocations after it; the new RcEnv is the last one *)
(* with_value writing the binding into the extended frame itself, and
   allocating a frame without bindings above it *)
with_value_in_place(frs, env, name, val) ==
    Append([frs EXCEPT ![env].bindings = <<<<name, val>>>> \o @], Environment(Some(env), <<>>))

with_value(frs, env, name, val) ==
    Append(frs, Environment(Some(env), <<<<name, val>>>>))

(***************************************************************************)
(* miri.rs: primitives                                                     *)
(***************************************************************************)
(* the slice apply_primitive matches the tag to *)
expected_args(primitive) ==
    CASE primitive.p \in {"Plus", "Minus", "Times", "Div", "Mod"} -> <<"Int", "Int">>
      [] primitive.p = "Neg" -> <<"Bool">>
      [] primitive.p \in {"And", "Or", "Xor"} -> <<"Bool", "Bool">>
      [] primitive.p = "Cons" -> <<"Any", "Any">>
      [] primitive.p \in {"Car", "Cdr"} -> <<"Cons">>
      [] primitive.p \in {"Eq", "Gt", "Ge", "Lt", "Le"} -> <<"Int", "Int">>
      [] primitive.p = "BoolToInt" -> <<"Bool">>

(* check_type with every arm true *)
check_type_any(type, obj) == type \in {"Any", "Bool", "Int", "Null", "Lambda", "CurriedPrimitive", "Cons"}

(* ObjType::check_type *)
check_type(type, obj) == type = "Any" \/ type = obj.kind

get_int(obj) == IF obj.kind = "Int" THEN Ok(obj.i) ELSE Panic("expected int")
get_bool(obj) == IF obj.kind = "Bool" THEN Ok(obj.b) ELSE Panic("expected bool")
get_pair(obj) ==
    IF obj.kind = "Cons" THEN Ok(<<obj.car, obj.cdr>>) ELSE Panic("expected pair")

(* i64 +, - and *: a result outside i64 panics where overflow checks are
   compiled in and wraps around where they are not *)
Overflowing(exact, what) ==
    IF InI64(exact) THEN Ok(exact)
    ELSE IF debug_assertions THEN Panic(what)
    ELSE Ok(WrapI64(exact))

i64_add(a, b) == Overflowing(BigAdd(a, b), "attempt to add with overflow")
(* the subtraction with its operands exchanged *)
i64_sub_reversed(a, b) == Overflowing(BigSub(b, a), "attempt to subtract with overflow")

i64_sub(a, b) == Overflowing(BigSub(a, b), "attempt to subtract with overflow")
i64_mul(a, b) == Overflowing(BigMul(a, b), "attempt to multiply with overflow")

(* i64 / and %: both checks are compiled into every build *)
i64_div(a, b) ==
    IF b = I(0) THEN Panic("attempt to divide by zero")
    ELSE IF a = I64_MIN /\ b = I(-1) THEN Panic("attempt to divide with overflow")
    ELSE Ok(BigQuot(a, b))

i64_rem(a, b) ==
    IF b = I(0) THEN Panic("attempt to calculate the remainder with a divisor of zero")
    ELSE IF a = I64_MIN /\ b = I(-1)
    THEN Panic("attempt to calculate the remainder with overflow")
    ELSE Ok(BigRem(a, b))

(* the arms of the firing match on two integers: get_int of both, then Op *)
FireInt2(args, Op(_, _), Wrap(_)) ==
    LET a == get_int(args[1])
        b == get_int(args[2])
    IN  IF ~a.ok THEN a
        ELSE IF ~b.ok THEN b
        ELSE LET r == Op(a.val, b.val)
             IN  IF r.ok THEN Ok(Wrap(r.val)) ELSE r

i64_eq(a, b) == Ok(a = b)
i64_lt(a, b) == Ok(BigLt(a, b))
i64_le(a, b) == Ok(BigLe(a, b))
i64_gt(a, b) == Ok(BigLt(b, a))
i64_ge(a, b) == Ok(BigLe(b, a))

(* the firing match of apply_primitive on a full argument list *)
fire(primitive, args) ==
    CASE primitive.p = "Plus" -> FireInt2(args, i64_add, ObjInt)
      [] primitive.p = "Minus" -> FireInt2(args, i64_sub, ObjInt)
      [] primitive.p = "Times" -> FireInt2(args, i64_mul, ObjInt)
      [] primitive.p = "Div" -> FireInt2(args, i64_div, ObjInt)
      [] primitive.p = "Mod" -> FireInt2(args, i64_rem, ObjInt)
      [] primitive.p = "Neg" ->
           LET a == get_bool(args[1]) IN IF ~a.ok THEN a ELSE Ok(ObjBool(~a.val))
      [] primitive.p = "And" ->
           LET a == get_bool(args[1])
               b == get_bool(args[2])
           IN  IF ~a.ok THEN a
               ELSE IF ~a.val THEN Ok(ObjBool(FALSE))
               ELSE IF ~b.ok THEN b
               ELSE Ok(ObjBool(b.val))
      [] primitive.p = "Or" ->
           LET a == get_bool(args[1])
               b == get_bool(args[2])
           IN  IF ~a.ok THEN a
               ELSE IF a.val THEN Ok(ObjBool(TRUE))
               ELSE IF ~b.ok THEN b
               ELSE Ok(ObjBool(b.val))
      [] primitive.p = "Xor" ->
           LET a == get_bool(args[1])
               b == get_bool(args[2])
           IN  IF ~a.ok THEN a
               ELSE IF ~b.ok THEN b
               ELSE Ok(ObjBool(a.val = b.val))
      [] primitive.p = "Cons" -> Ok(ObjCons(args[1], args[2]))
      [] primitive.p = "Car" ->
           LET a == get_pair(args[1]) IN IF ~a.ok THEN a ELSE Ok(a.val[1])
      [] primitive.p = "Cdr" ->
           LET a == get_pair(args[1]) IN IF ~a.ok THEN a ELSE Ok(a.val[2])
      [] primitive.p = "Eq" -> FireInt2(args, i64_eq, ObjBool)
      [] primitive.p = "Lt" -> FireInt2(args, i64_lt, ObjBool)
      [] primitive.p = "Le" -> FireInt2(args, i64_le, ObjBool)
      [] primitive.p = "Gt" -> FireInt2(args, i64_gt, ObjBool)
      [] primitive.p = "Ge" -> FireInt2(args, i64_ge, ObjBool)
      [] primitive.p = "BoolToInt" ->
           LET a == get_bool(args[1])
           IN  IF ~a.ok THEN a ELSE Ok(ObjInt(IF a.val THEN I(1) ELSE I(0)))
      [] OTHER -> Panic("got primitive, which should have been desugared")

(* apply_primitive with the new argument put before the ones already held *)
apply_primitive_prepending(prim, arg) ==
    IF prim.primitive \notin LowLevel
    THEN Panic("got primitive, which should have been desugared")
    ELSE LET expected == expected_args(prim.primitive)
             arg_pos  == Len(prim.args)
             args     == <<arg>> \o prim.args
         IN  IF arg_pos >= Len(expected) THEN Panic("index out of bounds")
             ELSE IF ~check_type(expected[arg_pos + 1], arg)
             THEN Err([text |-> "primitive: expected type, but got",
                       primitive |-> prim.primitive,
                       expected |-> expected[arg_pos + 1], obj |-> arg])
             ELSE IF Len(args) < Len(expected)
             THEN Ok(ObjCurried(prim.primitive, args))
             ELSE fire(prim.primitive, args)

(* apply_primitive firing one argument late: the full list is held first *)
apply_primitive_holding(prim, arg) ==
    IF prim.primitive \notin LowLevel
    THEN Panic("got primitive, which should have been desugared")
    ELSE LET expected == expected_args(prim.primitive)
             arg_pos  == Len(prim.args)
             args     == Append(prim.args, arg)
         IN  IF arg_pos >= Len(expected) THEN fire(prim.primitive, prim.args)
             ELSE IF ~check_type(expected[arg_pos + 1], arg)
             THEN Err([text |-> "primitive: expected type, but got",
                       primitive |-> prim.primitive,
                       expected |-> expected[arg_pos + 1], obj |-> arg])
             ELSE Ok(ObjCurried(prim.primitive, args))

(* apply_primitive without the check of the argument's type *)
apply_primitive_unchecked(prim, arg) ==
    IF prim.primitive \notin LowLevel
    THEN Panic("got primitive, which should have been desugared")
    ELSE LET expected == expected_args(prim.primitive)
             arg_pos  == Len(prim.args)
             args     == Append(prim.args, arg)
         IN  IF arg_pos >= Len(expected) THEN Panic("index out of bounds")
             ELSE IF Len(args) < Len(expected)
             THEN Ok(ObjCurried(prim.primitive, args))
             ELSE fire(prim.primitive, args)

apply_primitive(prim, arg) ==
    IF prim.primitive \notin LowLevel
    THEN Panic("got primitive, which should have been desugared")
    ELSE LET expected == expected_args(prim.primitive)
             arg_pos  == Len(prim.args)
             args     == Append(prim.args, arg)
         IN  IF arg_pos >= Len(expected) THEN Panic("index out of bounds")
             ELSE IF ~check_type(expected[arg_pos + 1], arg)
             THEN Err([text |-> "primitive: expected type, but got",
                       primitive |-> prim.primitive,
                       expected |-> expected[arg_pos + 1], obj |-> arg])
             ELSE IF Len(args) < Len(expected)
             THEN Ok(ObjCurried(prim.primitive, args))
             ELSE fire(prim.primitive, args)

(***************************************************************************)
(* miri.rs: run.  The locals of run are the fields of a machine record; an *)
(* arm of the driver loop or of eval maps the machine to the next one.     *)
(***************************************************************************)
Idle == [kind |-> "idle"]
Running == [kind |-> "running"]
Returned(r) == [kind |-> "returned", r |-> r]
Panicked(m) == [kind |-> "panic", msg |-> m]

Machine(stk, val, frs, res, tr) ==
    [stack |-> stk, value |-> val, frames |-> frs, result |-> res, trace |-> tr]

(* the locals of run(e) before its loop *)
RunStart(e) ==
    Machine(<<ContEval(e, top_level)>>, ObjNull, <<Environment(None, <<>>)>>, Running, <<>>)

Top(m) == m.stack[Len(m.stack)]
Popped(m) == SubSeq(m.stack, 1, Len(m.stack) - 1)

(* the loop goes on with the stack stk and the register val *)
Continue(m, stk, val, frs) == Machine(stk, val, frs, m.result, Append(m.trace, Top(m)))

(* run returns, or a panic unwinds it: its stack is dropped *)
Leave(m, res) == Machine(<<>>, m.value, m.frames, res, Append(m.trace, Top(m)))

EvalLambdaArm(m) ==
    Continue(m, Popped(m),
             ObjLambda(Top(m).environment, Top(m).expr.arg, Top(m).expr.body), m.frames)

(* the arm with its two pushes in the other order *)
EvalIfArm_swapped(m) ==
    Continue(m, Popped(m) \o <<ContEval(Top(m).expr.condition, Top(m).environment),
                               ContIf(Top(m).expr.consequent, Top(m).expr.alternative,
                                      Top(m).environment)>>,
             m.value, m.frames)

EvalIfArm(m) ==
    Continue(m, Popped(m) \o <<ContIf(Top(m).expr.consequent, Top(m).expr.alternative,
                                      Top(m).environment),
                               ContEval(Top(m).expr.condition, Top(m).environment)>>,
             m.value, m.frames)

(* the arm with its two pushes in the other order *)
EvalApplyArm_swapped(m) ==
    Continue(m, Popped(m) \o <<ContEval(Top(m).expr.func, Top(m).environment),
                               ContEvFun(Top(m).expr.arg, Top(m).environment)>>,
             m.value, m.frames)

EvalApplyArm(m) ==
    Continue(m, Popped(m) \o <<ContEvFun(Top(m).expr.arg, Top(m).environment),
                               ContEval(Top(m).expr.func, Top(m).environment)>>,
             m.value, m.frames)

EvalPrimitiveArm(m) ==
    Continue(m, Popped(m), ObjCurried(Top(m).expr.primitive, <<>>), m.frames)

EvalLiteralArm(m) ==
    Continue(m, Popped(m),
             CASE Top(m).expr.lit.ty = "Bool" -> ObjBool(Top(m).expr.lit.b)
               [] Top(m).expr.lit.ty = "Int" -> ObjInt(Top(m).expr.lit.i)
               [] Top(m).expr.lit.ty = "Null" -> ObjNull,
             m.frames)

(* the arm with the lookup unwrapped: an unbound name aborts *)
EvalRefArm_unwrap(m) ==
    LET v == find_value(m.frames, Top(m).environment, Top(m).expr.name)
    IN  IF v.some
        THEN Continue(m, Popped(m), v.v, m.frames)
        ELSE Leave(m, Panicked("called Option::unwrap() on a None value"))

(* find_value asking the parent before the frame itself *)
RECURSIVE find_value_outermost(_, _, _)
find_value_outermost(frs, env, name) ==
    LET up == IF frs[env].parent.some
              THEN find_value_outermost(frs, frs[env].parent.v, name)
              ELSE None
    IN  IF up.some THEN up ELSE FindBinding(frs[env].bindings, name)

(* the arm with the lookup answered by the outermost frame *)
EvalRefArm_outermost(m) ==
    LET v == find_value_outermost(m.frames, Top(m).environment, Top(m).expr.name)
    IN  IF v.some
        THEN Continue(m, Popped(m), v.v, m.frames)
        ELSE Leave(m, Returned(Err([text |-> "reference to undefined name",
                                    name |-> Top(m).expr.name])))

EvalRefArm(m) ==
    LET v == find_value(m.frames, Top(m).environment, Top(m).expr.name)
    IN  IF v.some
        THEN Continue(m, Popped(m), v.v, m.frames)
        ELSE Leave(m, Returned(Err([text |-> "reference to undefined name",
                                    name |-> Top(m).expr.name])))

(* the arm _ => unimplemented!: Let and Comment *)
EvalUnimplementedArm(m) ==
    Leave(m, Panicked("not implemented: found expr, which should be gone after desugaring"))

(* the arm with every object but Bool(false) taken for true *)
IfArm_truthy(m) ==
    Continue(m, Popped(m) \o <<ContEval(IF m.value = ObjBool(FALSE) THEN Top(m).alternative
                                                                    ELSE Top(m).consequent,
                                        Top(m).environment)>>,
             m.value, m.frames)

IfArm(m) ==
    IF m.value.kind = "Bool"
    THEN Continue(m, Popped(m) \o <<ContEval(IF m.value.b THEN Top(m).consequent
                                                          ELSE Top(m).alternative,
                                             Top(m).environment)>>,
                  m.value, m.frames)
    ELSE Leave(m, Returned(Err([text |-> "expected a bool value, got", obj |-> m.value])))

EvFunArm(m) ==
    Continue(m, Popped(m) \o <<ContApply(m.value, Top(m).environment),
                               ContEval(Top(m).arg, Top(m).environment)>>,
             m.value, m.frames)

(* the environment the Obj::Lambda arm of Continuation::Apply extends *)
ApplyEnvironment(cont, l) == cont.environment

ApplyLambdaArm(m) ==
    LET frs == with_value(m.frames, ApplyEnvironment(Top(m), Top(m).func),
                          Top(m).func.arg, m.value)
    IN  Continue(m, Popped(m) \o <<ContEval(Top(m).func.body, Len(frs))>>, m.value, frs)

(* the arm with args.push(arg) done on the list of the applied object itself:
   every holder of that object sees the longer list *)
ApplyCurriedPrimitiveArm_pushing(m) ==
    LET r == apply_primitive(Top(m).func, m.value)
        pushed == ObjCurried(Top(m).func.primitive, Append(Top(m).func.args, m.value))
        frs == [i \in 1..Len(m.frames) |->
                  Environment(m.frames[i].parent,
                              [j \in 1..Len(m.frames[i].bindings) |->
                                 IF m.frames[i].bindings[j][2] = Top(m).func
                                 THEN <<m.frames[i].bindings[j][1], pushed>>
                                 ELSE m.frames[i].bindings[j]])]
    IN  CASE r.ok -> Continue(m, Popped(m), r.val, frs)
          [] IsErr(r) -> Leave(m, Returned(Err(r.err)))
          [] IsPanic(r) -> Leave(m, Panicked(r.panic))

ApplyCurriedPrimitiveArm(m) ==
    LET r == apply_primitive(Top(m).func, m.value)
    IN  CASE r.ok -> Continue(m, Popped(m), r.val, m.frames)
          [] IsErr(r) -> Leave(m, Returned(Err(r.err)))
          [] IsPanic(r) -> Leave(m, Panicked(r.panic))

(* the arm going on with Null instead of returning the error *)
ApplyOtherArm_skipping(m) == Continue(m, Popped(m), ObjNull, m.frames)

ApplyOtherArm(m) == Leave(m, Returned(Err([text |-> "cannot apply", obj |-> Top(m).func])))

(* while let Some(cont) = stack.pop() fails: Ok(Rc::try_unwrap(value).unwrap()).
   The register is the only owner left of its object: every other owner was a
   continuation or a frame that a continuation held. *)
ReturnArm(m) == Machine(m.stack, m.value, m.frames, Returned(Ok(m.value)), m.trace)

Popping(m, kind) == m.result = Running /\ m.stack # <<>> /\ Top(m).k = kind
Evaluating(m, tags) == Popping(m, "Eval") /\ Top(m).expr.tag \in tags
Applying(m, kinds) == Popping(m, "Apply") /\ Top(m).func.kind \in kinds

(* one iteration of the loop of run *)
Step(m) ==
    CASE Evaluating(m, {"Lambda"}) -> EvalLambdaArm(m)
      [] Evaluating(m, {"If"}) -> EvalIfArm(m)
      [] Evaluating(m, {"Apply"}) -> EvalApplyArm(m)
      [] Evaluating(m, {"Primitive"}) -> EvalPrimitiveArm(m)
      [] Evaluating(m, {"Literal"}) -> EvalLiteralArm(m)
      [] Evaluating(m, {"Ref"}) -> EvalRefArm(m)
      [] Evaluating(m, {"Let", "Comment"}) -> EvalUnimplementedArm(m)
      [] Popping(m, "If") -> IfArm(m)
      [] Popping(m, "EvFun") -> EvFunArm(m)
      [] Applying(m, {"Lambda"}) -> ApplyLambdaArm(m)
      [] Applying(m, {"CurriedPrimitive"}) -> ApplyCurriedPrimitiveArm(m)
      [] Applying(m, {"Bool", "Int", "Null", "Cons"}) -> ApplyOtherArm(m)
      [] m.result = Running /\ m.stack = <<>> -> ReturnArm(m)

MaxSteps == 60

(* run(e) as a function: the loop iterated, given up after MaxSteps iterations *)
RECURSIVE RunLoop(_, _)
RunLoop(m, fuel) ==
    IF m.result # Running \/ fuel = 0 THEN m ELSE RunLoop(Step(m), fuel - 1)

run(e) == RunLoop(RunStart(e), MaxSteps).result

(* the machine held in the variables *)
M == Machine(stack, value, frames, result, trace)

Becomes(m) ==
    /\ stack' = m.stack
    /\ value' = m.value
    /\ frames' = m.frames
    /\ result' = m.result
    /\ trace' = m.trace
    /\ Len(m.trace) <= MaxSteps
    /\ UNCHANGED <<debug_assertions, program, cfg_vars, mir_vars, lines, line_no, output, driver>>

EvalLambda == Evaluating(M, {"Lambda"}) /\ Becomes(EvalLambdaArm(M))
EvalIf == Evaluating(M, {"If"}) /\ Becomes(EvalIfArm(M))
EvalApply == Evaluating(M, {"Apply"}) /\ Becomes(EvalApplyArm(M))
EvalPrimitive == Evaluating(M, {"Primitive"}) /\ Becomes(EvalPrimitiveArm(M))
EvalLiteral == Evaluating(M, {"Literal"}) /\ Becomes(EvalLiteralArm(M))
EvalRef == Evaluating(M, {"Ref"}) /\ Becomes(EvalRefArm(M))
EvalUnimplemented == Evaluating(M, {"Let", "Comment"}) /\ Becomes(EvalUnimplementedArm(M))
ContinueIf == Popping(M, "If") /\ Becomes(IfArm(M))
ContinueEvFun == Popping(M, "EvFun") /\ Becomes(EvFunArm(M))
ApplyLambda == Applying(M, {"Lambda"}) /\ Becomes(ApplyLambdaArm(M))
ApplyCurriedPrimitive ==
    Applying(M, {"CurriedPrimitive"}) /\ Becomes(ApplyCurriedPrimitiveArm(M))
ApplyOther == Applying(M, {"Bool", "Int", "Null", "Cons"}) /\ Becomes(ApplyOtherArm(M))
RunReturn == result = Running /\ stack = <<>> /\ Becomes(ReturnArm(M))

RunStep ==
    \/ EvalLambda \/ EvalIf \/ EvalApply \/ EvalPrimitive \/ EvalLiteral \/ EvalRef
    \/ EvalUnimplemented \/ ContinueIf \/ ContinueEvFun
    \/ ApplyLambda \/ ApplyCurriedPrimitive \/ ApplyOther \/ RunReturn

(***************************************************************************)
(* cfg.rs: the switch helper                                               *)
(***************************************************************************)
DISCRIMINANT == "discriminant"

eq_expr(n, e) == apply(apply(PrimitiveExpr(Prim("Eq")), literal(LitInt(I(n)))), e)

(* exprs.pop() takes the last candidate *)
RECURSIVE switch_helper(_, _)
switch_helper(current_pos, exprs) ==
    LET expr == exprs[Len(exprs)]
        rest == SubSeq(exprs, 1, Len(exprs) - 1)
    IN  IF rest = <<>> THEN expr
        ELSE if_(eq_expr(current_pos, Ref(DISCRIMINANT)), expr,
                 switch_helper(current_pos + 1, rest))

switch(discriminant, exprs) == let_(DISCRIMINANT, discriminant, switch_helper(0, exprs))

(***************************************************************************)
(* cfg.rs: the builder.  BlockId b is blocks[b + 1].                       *)
(***************************************************************************)
MaxBlocks == 2

BasicBlock(instr, jump) == [instr |-> instr, jump |-> jump]
Jmp(t) == [j |-> "Jmp", t |-> t]
Br(t, e) == [j |-> "Br", t |-> t, e |-> e]

RESULT_NAME == "_res"
(* lib.rs create_res_lambda: a struct Lambda *)
create_res_lambda(e) == [arg |-> RESULT_NAME, body |-> e]

BlockIds == 0..MaxBlocks
Instrs == {create_res_lambda(literal(LitInt(I(n)))) : n \in 0..1}
Jumps == {Jmp(0), Jmp(1), Br(0, 1)}

(* debug_assert!(cond): checked where debug assertions are compiled in *)
DebugAssert(cond, msg) == IF debug_assertions /\ ~cond THEN Some(msg) ELSE None

CfgLive == cfg_panic = None

CfgFrame == UNCHANGED <<debug_assertions, miri_vars, mir_vars, driver_vars, stmt_vars>>

CurrentInRange == current_block < Len(blocks)

(* add_block returning the length of the list instead of the last index *)
add_block_len ==
    /\ CfgLive
    /\ Len(blocks) < MaxBlocks
    /\ blocks' = Append(blocks, BasicBlock(None, None))
    /\ new_block' = Some(Len(blocks'))
    /\ UNCHANGED <<return_block_id, current_block, compiler, cfg_panic>>
    /\ CfgFrame

add_block ==
    /\ CfgLive
    /\ Len(blocks) < MaxBlocks
    /\ blocks' = Append(blocks, BasicBlock(None, None))
    /\ new_block' = Some(Len(blocks') - 1)
    /\ UNCHANGED <<return_block_id, current_block, compiler, cfg_panic>>
    /\ CfgFrame

(* add_instr storing into the first block, wherever the cursor is *)
add_instr_first(instr) ==
    /\ CfgLive
    /\ IF CurrentInRange
       THEN /\ blocks' = [blocks EXCEPT ![1].instr = Some(instr)]
            /\ cfg_panic' = DebugAssert(~blocks[1].instr.some,
                                        "assertion failed: old.is_none()")
       ELSE /\ blocks' = blocks
            /\ cfg_panic' = Some("index out of bounds")
    /\ UNCHANGED <<return_block_id, current_block, new_block, compiler>>
    /\ CfgFrame

(* self.blocks[self.current_block] panics on an index past the end *)
add_instr(instr) ==
    /\ CfgLive
    /\ IF CurrentInRange
       THEN /\ blocks' = [blocks EXCEPT ![current_block + 1].instr = Some(instr)]
            /\ cfg_panic' = DebugAssert(~blocks[current_block + 1].instr.some,
                                        "assertion failed: old.is_none()")
       ELSE /\ blocks' = blocks
            /\ cfg_panic' = Some("index out of bounds")
    /\ UNCHANGED <<return_block_id, current_block, new_block, compiler>>
    /\ CfgFrame

set_jump(jump) ==
    /\ CfgLive
    /\ IF CurrentInRange
       THEN /\ blocks' = [blocks EXCEPT ![current_block + 1].jump = Some(jump)]
            /\ cfg_panic' = DebugAssert(~blocks[current_block + 1].jump.some,
                                        "changing block jump")
       ELSE /\ blocks' = blocks
            /\ cfg_panic' = Some("index out of bounds")
    /\ UNCHANGED <<return_block_id, current_block, new_block, compiler>>
    /\ CfgFrame

set_return_block(id) ==
    /\ CfgLive
    /\ return_block_id' = Some(id)
    /\ cfg_panic' = DebugAssert(~return_block_id.some, "changing return block ID")
    /\ UNCHANGED <<blocks, current_block, new_block, compiler>>
    /\ CfgFrame

switch_to_block(id) ==
    /\ CfgLive
    /\ current_block' = id
    /\ UNCHANGED <<blocks, return_block_id, new_block, compiler, cfg_panic>>
    /\ CfgFrame

(* Cfg::default() *)
CfgDefault == [blocks |-> <<BasicBlock(None, None)>>, return_block_id |-> None,
               current_block |-> 0]

(* lib.rs Compiler::compile_func: a new Cfg, two add_block calls, the return
   block set, and then the argument todo!() of compile_all panics *)
compile_func ==
    /\ CfgLive
    /\ blocks' = CfgDefault.blocks \o <<BasicBlock(None, None), BasicBlock(None, None)>>
    /\ current_block' = CfgDefault.current_block
    /\ compiler' = [current_block |-> Len(CfgDefault.blocks),
                    return_block |-> Len(CfgDefault.blocks) + 1]
    /\ new_block' = Some(compiler'.return_block)
    /\ return_block_id' = Some(compiler'.return_block)
    /\ cfg_panic' = Some("not yet implemented")
    /\ CfgFrame

CfgNext ==
    \/ add_block
    \/ \E instr \in Instrs : add_instr(instr)
    \/ \E jump \in Jumps : set_jump(jump)
    \/ \E id \in BlockIds : set_return_block(id)
    \/ \E id \in BlockIds : switch_to_block(id)
    \/ compile_func

(***************************************************************************)
(* stmt.rs, expr.rs, lib.rs: the lowering of statements                    *)
(***************************************************************************)
MaxDecls == 2

(* the names a function's declarations use *)
Identifiers == {"x", "y"}

(* hir StmtType, as compile_stmt matches it; an hir Expr is opaque *)
Compound(stmts) == [t |-> "Compound", stmts |-> stmts]
DeclStmt(name) == [t |-> "Decl", name |-> name]
ReturnStmt(expr) == [t |-> "Return", expr |-> expr]
ExprStmt(expr) == [t |-> "Expr", expr |-> expr]
IfStmt(condition, body, otherwise) ==
    [t |-> "If", condition |-> condition, body |-> body, otherwise |-> otherwise]
WhileStmt == [t |-> "While"]

(* the variants of MirExpr that stmt.rs builds and mir.rs does not declare *)
Do(exprs) == [tag |-> "Do", exprs |-> exprs]
StatePrimGet(n) == [tag |-> "StatePrim", prim |-> [p |-> "Get", n |-> n]]

(* expr.rs Compiler::compile_expr: todo!() *)
compile_expr(expr) == Panic("not yet implemented")

RECURSIVE compile_stmt(_, _)
RECURSIVE compile_all_from(_, _, _)

(* the loop of compile_all from statement i on, exprs pushed so far; the
   question mark returns the first failure *)
compile_all_from(stmts, i, exprs) ==
    IF i > Len(stmts) THEN Ok(Do(exprs))
    ELSE LET r == compile_stmt(stmts[i], i = Len(stmts))
         IN  IF ~r.ok THEN r ELSE compile_all_from(stmts, i + 1, Append(exprs, r.val))

compile_all(stmts) == compile_all_from(stmts, 1, <<>>)

if_stmt(condition, consequent, alternative) ==
    LET c == compile_expr(condition)
    IN  IF ~c.ok THEN c
        ELSE LET k == compile_stmt(consequent, FALSE)
             IN  IF ~k.ok THEN k
                 ELSE LET a == IF alternative.some THEN compile_stmt(alternative.v, FALSE)
                               ELSE Ok(nop)
                      IN  IF ~a.ok THEN a ELSE Ok(if_(c.val.val, k.val, a.val))

(* Compiler::compile_stmt: the MirResult; it calls nothing of the Cfg and
   writes no field of the Compiler *)
compile_stmt(stmt, last) ==
    CASE stmt.t = "Compound" -> compile_all(stmt.stmts)
      [] stmt.t = "Decl" -> Ok(nop)
      [] stmt.t = "Return" ->
           LET e == IF stmt.expr.some THEN compile_expr(stmt.expr.v)
                    ELSE Ok([val |-> literal(LitNull)])
           IN  IF ~e.ok THEN e
               ELSE IF last THEN Ok(e.val.val)
               ELSE Ok(apply(StatePrimGet("RETURN_CONT"), e.val.val))
      [] stmt.t = "Expr" ->
           LET e == compile_expr(stmt.expr) IN IF ~e.ok THEN e ELSE Ok(e.val.val)
      [] stmt.t = "If" -> if_stmt(stmt.condition, stmt.body, stmt.otherwise)
      [] OTHER -> Panic("not yet implemented")

StmtFrame == UNCHANGED <<debug_assertions, miri_vars, mir_vars, driver_vars>>

(* a call of compile_stmt on the Compiler *)
CompileStmt(stmt, last) ==
    /\ CfgLive
    /\ LET r == compile_stmt(stmt, last)
       IN  IF IsPanic(r)
           THEN cfg_panic' = Some(r.panic) /\ mir_result' = mir_result
           ELSE cfg_panic' = None /\ mir_result' = Some(r)
    /\ UNCHANGED <<blocks, return_block_id, current_block, new_block, compiler,
                   stack_positions, next_stack_slot>>
    /\ StmtFrame

(* Compiler::declare_stack_slot: the table and the counter after it *)
declare_stack_slot(positions, next, identifier) ==
    [stack_positions |-> [positions EXCEPT ![identifier] = Some(next)],
     next_stack_slot |-> next + 1,
     slot |-> next]

(* hir Declaration: the symbol's id, storage class and type, and whether
   there is an initializer *)
Declaration(id, storage_class, ctype, init) ==
    [id |-> id, storage_class |-> storage_class, ctype |-> ctype, init |-> init]

(* Compiler::declare_stack *)
declare_stack(decl) ==
    /\ CfgLive
    /\ next_stack_slot < MaxDecls
    /\ IF decl.storage_class = "Typedef"
       THEN UNCHANGED <<stack_positions, next_stack_slot, cfg_panic>>
       ELSE IF decl.ctype = "Function"
       THEN /\ cfg_panic' = Some("not yet implemented: function declaration")
            /\ UNCHANGED <<stack_positions, next_stack_slot>>
       ELSE LET d == declare_stack_slot(stack_positions, next_stack_slot, decl.id)
            IN  /\ stack_positions' = d.stack_positions
                /\ next_stack_slot' = d.next_stack_slot
                /\ cfg_panic' = IF decl.init
                                THEN Some("not yet implemented: stack slot initializer")
                                ELSE None
    /\ UNCHANGED <<blocks, return_block_id, current_block, new_block, compiler, mir_result>>
    /\ StmtFrame

(* the statements and declarations a function body is made of *)
HirExprs == {"e"}
SimpleStmts ==
    {DeclStmt(n) : n \in Identifiers}
        \cup {ReturnStmt(None)} \cup {ReturnStmt(Some(e)) : e \in HirExprs}
        \cup {ExprStmt(e) : e \in HirExprs} \cup {WhileStmt}
Stmts ==
    SimpleStmts
        \cup {Compound(<<>>)}
        \cup {Compound(<<a>>) : a \in SimpleStmts}
        \cup {Compound(<<DeclStmt("x"), b>>) : b \in SimpleStmts}
        \cup {Compound(<<ReturnStmt(None), b>>) : b \in SimpleStmts}
        \cup {IfStmt("e", ReturnStmt(None), None),
              IfStmt("e", ReturnStmt(None), Some(ReturnStmt(None)))}
Declarations ==
    {Declaration(id, sc, ty, init) :
       id \in Identifiers, sc \in {"Typedef", "Auto"}, ty \in {"Int", "Function"},
       init \in BOOLEAN}

CompilerNext ==
    \/ \E stmt \in Stmts, last \in BOOLEAN : CompileStmt(stmt, last)
    \/ \E decl \in Declarations : declare_stack(decl)
    \/ compile_func

(***************************************************************************)
(* The expressions the transforms and the interpreter are given            *)
(***************************************************************************)
MaxInt == 2
MaxDepth == 2
MaxCases == 3

IntLit(n) == literal(LitInt(I(n)))
P(name) == PrimitiveExpr(Prim(name))
call2(f, a, b) == apply(apply(f, a), b)

SmallInts == -MaxInt..MaxInt
IntLiterals == {IntLit(n) : n \in SmallInts} \cup {literal(LitInt(I64_MIN)), literal(LitInt(I64_MAX))}
BoolLiterals == {literal(LitBool(b)) : b \in BOOLEAN}
PairExpr == call2(P("Cons"), IntLit(1), literal(LitBool(TRUE)))
IdentityExpr == lambda("x", Ref("x"))
Atoms == IntLiterals \cup BoolLiterals \cup {literal(LitNull), PairExpr, IdentityExpr, P("Neg")}

Leaves ==
    {IntLit(0), literal(LitBool(TRUE)), literal(LitNull), Ref("x"), Ref("plus"),
     P("Plus"), P("BoolToInt"), PrimitiveExpr(Get(MaxSlot))}

(* e below one more node: each variant with e as one of its children *)
Around(e) ==
    {lambda("x", e), apply(e, IntLit(1)), apply(P("Neg"), e),
     if_(e, IntLit(1), IntLit(2)), if_(literal(LitBool(TRUE)), e, IntLit(2)),
     if_(literal(LitBool(FALSE)), IntLit(1), e),
     let_("x", e, Ref("x")), let_("x", IntLit(1), e), Comment("note", e)}

RECURSIVE ExprsUpTo(_)
ExprsUpTo(depth) ==
    IF depth = 0 THEN Leaves
    ELSE LET below == ExprsUpTo(depth - 1)
         IN  below \cup UNION {Around(e) : e \in below}

MirExprs == ExprsUpTo(MaxDepth)

Prim2Programs == {call2(PrimitiveExpr(p), a, b) : p \in Primitive, a \in Atoms, b \in Atoms}
Prim1Programs == {apply(PrimitiveExpr(p), a) : p \in Primitive, a \in Atoms}

(* ((let (x a) (lambda y (plus x y))) b), desugared *)
ScopeProgram(a, b) ==
    apply(desugar(let_("x", IntLit(a), lambda("y", call2(P("Plus"), Ref("x"), Ref("y"))))),
          IntLit(b))
ScopeArgs == (SmallInts \X SmallInts) \cup {<<5, 3>>}
ScopePrograms == {ScopeProgram(ab[1], ab[2]) : ab \in ScopeArgs}

(* (let (x a) (let (x b) x)), desugared *)
ShadowProgram(a, b) == desugar(let_("x", IntLit(a), let_("x", IntLit(b), Ref("x"))))
ShadowPrograms == {ShadowProgram(a, b) : a \in SmallInts, b \in SmallInts}

UndefinedPrograms == {apply(lambda("x", Ref("y")), a) : a \in Atoms}
IfPrograms == {if_(c, IntLit(1), IntLit(2)) : c \in Atoms}

(* the candidates and discriminants the switch helper is given *)
Candidate(i) == IntLit(10 * (i + 1))
Candidates(n) == [i \in 1..n |-> Candidate(i - 1)]
Discriminant(d) == call2(P("Plus"), IntLit(0), IntLit(d))
SwitchProgram(d, n) == desugar(switch(Discriminant(d), Candidates(n)))
SwitchPrograms == {SwitchProgram(d, n) : d \in -1..MaxCases, n \in 1..MaxCases}

(* (let (f (p a)) (cons (f b) (f c))), desugared: one partial application
   applied twice *)
ReuseProgram(p, a, b, c) ==
    desugar(let_("f", apply(PrimitiveExpr(p), a),
                 call2(P("Cons"), apply(Ref("f"), b), apply(Ref("f"), c))))
Binary == {p \in LowLevel : Len(expected_args(p)) = 2}
ReuseFirst == {IntLit(2), literal(LitBool(TRUE))}
ReuseSecond == {IntLit(1), IntLit(0), literal(LitBool(FALSE))}
ReusePrograms ==
    {ReuseProgram(p, a, b, c) : p \in Binary, a \in ReuseFirst, b \in ReuseSecond, c \in ReuseSecond}

(* (minus 10 4) *)
MinusExample == call2(P("Minus"), IntLit(10), IntLit(4))

(* the expression of lift on the value of the literal 1 *)
Lifted == lift([val |-> IntLit(1), ctype |-> "int", pure |-> TRUE]).val

(* (f a) and ((f a) 3) with f no function: a literal or a pair *)
NonFunctions == {IntLit(1), literal(LitBool(TRUE)), literal(LitNull), PairExpr}
NonFunctionArgs == {IntLit(2), IdentityExpr, Ref("y")}
NonFunctionPrograms ==
    {apply(f, a) : f \in NonFunctions, a \in NonFunctionArgs}
        \cup {apply(apply(f, a), IntLit(3)) : f \in NonFunctions, a \in NonFunctionArgs}

(* (let (discriminant 7) (switch d [discriminant, discriminant])), desugared:
   both candidates are the outer variable *)
CaptureProgram(d) ==
    desugar(let_(DISCRIMINANT, IntLit(7),
                 switch(Discriminant(d), <<Ref(DISCRIMINANT), Ref(DISCRIMINANT)>>)))

(* a switch both of whose candidates are the switch on e of 10 and 20 *)
InnerSwitch(e) == switch(Discriminant(e), Candidates(2))
NestedSwitchProgram(d, e) ==
    desugar(switch(Discriminant(d), <<InnerSwitch(e), InnerSwitch(e)>>))

SwitchScopePrograms ==
    {CaptureProgram(d) : d \in 0..1} \cup {NestedSwitchProgram(d, e) : d \in 0..1, e \in 0..1}

(* ((cons ((lambda x x) 1)) ((lambda y x) 2)): two extensions of the top
   level, the second one referring to the name the first one binds *)
SiblingProgram ==
    call2(P("Cons"), apply(lambda("x", Ref("x")), IntLit(1)),
          apply(lambda("y", Ref("x")), IntLit(2)))

(* the expressions without Lambda, Let and Comment among the inputs, with
   conditionals over primitive calls, and a few expressions of the other kinds *)
FairAtoms == {IntLit(0), IntLit(1), literal(LitBool(TRUE))}
FairSeconds == {IntLit(0), IntLit(2), literal(LitBool(TRUE))}
FairPrograms ==
    {call2(PrimitiveExpr(p), a, b) : p \in Primitive, a \in FairAtoms, b \in FairSeconds}
        \cup {if_(c, IntLit(1), IntLit(2)) : c \in FairAtoms}
        \cup {if_(call2(P("Lt"), a, b), call2(P("Div"), a, b), call2(P("Mod"), b, a)) :
                a \in {IntLit(0), IntLit(1)}, b \in {IntLit(0), IntLit(2)}}
        \cup {SiblingProgram, MinusExample, apply(IntLit(1), IntLit(2)),
              let_("x", IntLit(1), Ref("x"))}

Programs ==
    {SiblingProgram} \cup SwitchScopePrograms \cup NonFunctionPrograms \cup {MinusExample} \cup Prim2Programs \cup Prim1Programs \cup ScopePrograms \cup ShadowPrograms
        \cup UndefinedPrograms \cup IfPrograms \cup SwitchPrograms
        \cup ReusePrograms
        \cup MirExprs \cup {desugar(e) : e \in MirExprs}

(***************************************************************************)
(* Initial states                                                          *)
(***************************************************************************)
MiriIdle ==
    /\ program = literal(LitNull)
    /\ stack = <<>>
    /\ value = ObjNull
    /\ frames = <<>>
    /\ result = Idle
    /\ trace = <<>>

CfgInit ==
    /\ blocks = CfgDefault.blocks
    /\ return_block_id = CfgDefault.return_block_id
    /\ current_block = CfgDefault.current_block
    /\ new_block = None
    /\ compiler = [current_block |-> 0, return_block |-> 0]
    /\ cfg_panic = None
    /\ stack_positions = [n \in Identifiers |-> None]
    /\ next_stack_slot = 0
    /\ mir_result = None

MirIdle ==
    /\ mir_in = literal(LitNull)
    /\ desugared = <<>>
    /\ lexpr = None
    /\ decoded = None

DriverIdle ==
    /\ lines = <<>>
    /\ line_no = 0
    /\ output = <<>>
    /\ driver = "idle"

(***************************************************************************)
(* SpecMiri: run on one expression                                         *)
(***************************************************************************)
MiriInit ==
    /\ debug_assertions \in BOOLEAN
    /\ program \in Programs
    /\ stack = RunStart(program).stack
    /\ value = RunStart(program).value
    /\ frames = RunStart(program).frames
    /\ result = RunStart(program).result
    /\ trace = RunStart(program).trace
    /\ CfgInit /\ MirIdle /\ DriverIdle

SpecMiri == MiriInit /\ [][RunStep]_vars

(* run is a sequential loop: while the stack is not empty and nothing has
   been returned, the next iteration is taken *)
FairInit ==
    /\ debug_assertions \in BOOLEAN
    /\ program \in FairPrograms
    /\ stack = RunStart(program).stack
    /\ value = RunStart(program).value
    /\ frames = RunStart(program).frames
    /\ result = RunStart(program).result
    /\ trace = RunStart(program).trace
    /\ CfgInit /\ MirIdle /\ DriverIdle

SpecMiriFair == FairInit /\ [][RunStep]_vars /\ WF_vars(RunStep)

(***************************************************************************)
(* SpecCfg: the builder under any sequence of calls                        *)
(***************************************************************************)
CfgSpecInit == debug_assertions \in BOOLEAN /\ CfgInit /\ MiriIdle /\ MirIdle /\ DriverIdle

SpecCfg == CfgSpecInit /\ [][CfgNext]_vars

(***************************************************************************)
(* SpecCompiler: the Compiler under any sequence of statements and         *)
(* declarations                                                            *)
(***************************************************************************)
SpecCompiler == CfgSpecInit /\ [][CompilerNext]_vars

(***************************************************************************)
(* SpecMir: desugar, mir_to_lexpr and lexpr_to_mir on one expression       *)
(***************************************************************************)
MaxPasses == 2

MirFrame == UNCHANGED <<debug_assertions, mir_in, miri_vars, cfg_vars, driver_vars>>

Desugar ==
    /\ Len(desugared) < MaxPasses
    /\ desugared' = Append(desugared,
                           desugar(IF desugared = <<>> THEN mir_in
                                   ELSE desugared[Len(desugared)]))
    /\ UNCHANGED <<lexpr, decoded>>
    /\ MirFrame

Encode ==
    /\ ~lexpr.some
    /\ lexpr' = Some(mir_to_lexpr(mir_in))
    /\ UNCHANGED <<desugared, decoded>>
    /\ MirFrame

Decode ==
    /\ lexpr.some
    /\ ~decoded.some
    /\ decoded' = Some(lexpr_to_mir(lexpr.v))
    /\ UNCHANGED <<desugared, lexpr>>
    /\ MirFrame

MirNext == Desugar \/ Encode \/ Decode

MirInit ==
    /\ debug_assertions = FALSE
    /\ mir_in \in MirExprs \cup Prim2Programs \cup {nop, Lifted}
    /\ desugared = <<>>
    /\ lexpr = None
    /\ decoded = None
    /\ MiriIdle /\ CfgInit /\ DriverIdle

SpecMir == MirInit /\ [][MirNext]_vars

(***************************************************************************)
(* bin/miri.rs: the line driver.  A line of standard input is the outcome  *)
(* of reading it (valid UTF-8 or not) and of lexpr::from_str on its text.  *)
(***************************************************************************)
MaxLines == 2

BadUtf8 == [utf8 |-> FALSE, parsed |-> None]
Unparsable == [utf8 |-> TRUE, parsed |-> None]
Text(v) == [utf8 |-> TRUE, parsed |-> Some(v)]

(* lexpr::from_str(..).map_err(|e| e.to_string()) *)
from_str(line) == IF line.parsed.some THEN Ok(line.parsed.v) ELSE Err("parse error")

(* .and_then(|e| lexpr_to_mir(e)) *)
Decoded(line) ==
    LET parsed == from_str(line)
    IN  IF parsed.ok THEN lexpr_to_mir(parsed.val) ELSE parsed

DriverPrograms ==
    {IntLit(1), Ref("x"),
     call2(P("Minus"), IntLit(2), IntLit(1)),
     call2(P("Div"), IntLit(1), IntLit(0)),
     call2(P("Plus"), literal(LitInt(I64_MAX)), IntLit(1)),
     apply(P("Plus"), literal(LitBool(TRUE))),
     apply(IntLit(1), IntLit(2)),
     apply(IdentityExpr, IntLit(1)),
     if_(literal(LitBool(FALSE)), IntLit(1), IntLit(2)),
     let_("x", IntLit(1), Ref("x"))}

DriverLines ==
    {BadUtf8, Unparsable, Text(VString("note")), Text(VList(<<VKeyword("let")>>))}
        \cup {Text(mir_to_lexpr(e)) : e \in DriverPrograms}

RECURSIVE SeqsUpTo(_, _)
SeqsUpTo(S, n) ==
    IF n = 0 THEN {<<>>}
    ELSE LET shorter == SeqsUpTo(S, n - 1)
         IN  shorter \cup {Append(q, x) : q \in shorter, x \in S}

DriverFrame == UNCHANGED <<debug_assertions, cfg_vars, mir_vars, lines>>

NextLine == driver = "reading" /\ line_no < Len(lines)
CurrentLine == lines[line_no + 1]

(* line.unwrap() on a line that is not valid UTF-8 *)
ReadLineFails ==
    /\ NextLine
    /\ ~CurrentLine.utf8
    /\ driver' = "panic"
    /\ UNCHANGED <<line_no, output, miri_vars>>
    /\ DriverFrame

(* the arm Err(e) => println!("!! {:?}", e) *)
LineRejected ==
    /\ NextLine
    /\ CurrentLine.utf8
    /\ ~Decoded(CurrentLine).ok
    /\ output' = Append(output, [mark |-> "!!", msg |-> Decoded(CurrentLine).err])
    /\ line_no' = line_no + 1
    /\ UNCHANGED <<driver, miri_vars>>
    /\ DriverFrame

(* the arm Ok(p): the first println!, and run(&p) entered *)
LineDecoded ==
    /\ NextLine
    /\ CurrentLine.utf8
    /\ Decoded(CurrentLine).ok
    /\ LET p == Decoded(CurrentLine).val
       IN  /\ output' = Append(output, [mark |-> "=>", text |-> mir_to_lexpr(p)])
           /\ program' = p
           /\ stack' = RunStart(p).stack
           /\ value' = RunStart(p).value
           /\ frames' = RunStart(p).frames
           /\ result' = RunStart(p).result
           /\ trace' = RunStart(p).trace
    /\ driver' = "running"
    /\ UNCHANGED line_no
    /\ DriverFrame

(* run(&p) has returned: the second println!, and the next iteration *)
PrintResult ==
    /\ driver = "running"
    /\ result.kind = "returned"
    /\ output' = Append(output, [mark |-> "=>", result |-> result.r])
    /\ line_no' = line_no + 1
    /\ driver' = "reading"
    /\ stack' = <<>>
    /\ value' = ObjNull
    /\ frames' = <<>>
    /\ result' = Idle
    /\ trace' = <<>>
    /\ UNCHANGED program
    /\ DriverFrame

(* a panic inside run(&p) unwinds main: nothing catches it *)
RunPanics ==
    /\ driver = "running"
    /\ result.kind = "panic"
    /\ driver' = "panic"
    /\ UNCHANGED <<line_no, output, miri_vars>>
    /\ DriverFrame

(* lines() is exhausted: main returns *)
EndOfInput ==
    /\ driver = "reading"
    /\ line_no = Len(lines)
    /\ driver' = "done"
    /\ UNCHANGED <<line_no, output, miri_vars>>
    /\ DriverFrame

DriverNext ==
    \/ ReadLineFails \/ LineRejected \/ LineDecoded
    \/ EvalLambda \/ EvalIf \/ EvalApply \/ EvalPrimitive \/ EvalLiteral \/ EvalRef
    \/ EvalUnimplemented \/ ContinueIf \/ ContinueEvFun
    \/ ApplyLambda \/ ApplyCurriedPrimitive \/ ApplyOther \/ RunReturn
    \/ PrintResult \/ RunPanics \/ EndOfInput

DriverInit ==
    /\ debug_assertions \in BOOLEAN
    /\ lines \in SeqsUpTo(DriverLines, MaxLines)
    /\ line_no = 0
    /\ output = <<>>
    /\ driver = "reading"
    /\ MiriIdle /\ CfgInit /\ MirIdle

(* main is one sequential thread: a step that can be taken is taken *)
SpecDriver == DriverInit /\ [][DriverNext]_vars /\ WF_vars(DriverNext)

(***************************************************************************)
(* Properties                                                              *)
(***************************************************************************)
Last(s) == s[Len(s)]
Ended == result.kind \in {"returned", "panic"}

(* C1: lexical scoping.  When run applies a closure, the frame the body is
   evaluated in binds the parameter to the argument and extends the
   environment the closure captured; and the desugared
   ((let (x a) (lambda y (plus x y))) b) returns Int a+b. *)
C1_LexicalScoping ==
    /\ (result = Running /\ trace # <<>> /\ Last(trace).k = "Apply"
            /\ Last(trace).func.kind = "Lambda")
         => /\ Top(M) = ContEval(Last(trace).func.body, Len(frames))
            /\ frames[Len(frames)] =
                 Environment(Some(Last(trace).func.env), <<<<Last(trace).func.arg, value>>>>)
    /\ \A ab \in ScopeArgs :
         (program = ScopeProgram(ab[1], ab[2]) /\ Ended)
           => result = Returned(Ok(ObjInt(I(ab[1] + ab[2]))))

RECURSIVE HasLet(_)
HasLet(e) ==
    CASE e.tag = "Let" -> TRUE
      [] e.tag = "Lambda" -> HasLet(e.body)
      [] e.tag = "Apply" -> HasLet(e.func) \/ HasLet(e.arg)
      [] e.tag = "If" -> HasLet(e.condition) \/ HasLet(e.consequent) \/ HasLet(e.alternative)
      [] e.tag = "Comment" -> HasLet(e.inner)
      [] OTHER -> FALSE

(* C2: the tree desugar(e) contains no Let node, wherever the Let nodes of e
   are. *)
C2_DesugarRemovesEveryLet == desugared # <<>> => ~HasLet(desugared[1])

(* C3: round trip.  Decoding the encoding of a MIR value succeeds and yields
   that value. *)
C3_RoundTrip == decoded.some => decoded.v = Ok(mir_in)

RECURSIVE Interpretable(_)
Interpretable(e) ==
    CASE e.tag \in {"Let", "Comment"} -> FALSE
      [] e.tag = "Primitive" -> e.primitive \in LowLevel
      [] e.tag = "Lambda" -> Interpretable(e.body)
      [] e.tag = "Apply" -> Interpretable(e.func) /\ Interpretable(e.arg)
      [] e.tag = "If" ->
           Interpretable(e.condition) /\ Interpretable(e.consequent)
               /\ Interpretable(e.alternative)
      [] OTHER -> TRUE

(* C4: on an expression without Let, Comment and higher-level primitive, run
   ends by returning Ok or Err, never by an abort: division by zero, the
   minimum integer divided by -1 and overflowing arithmetic included. *)
C4_RunNeverAborts == Interpretable(program) => result.kind # "panic"

Selected(d, n) == IF 0 <= d /\ d < n THEN d ELSE n - 1
Evaluations(e) == Cardinality({i \in 1..Len(trace) : trace[i] = ContEval(e, top_level)})

(* C5: the desugared switch(discriminant, exprs) yields the value of exprs[d]
   when the discriminant is d with 0 <= d < N and the value of the last
   candidate otherwise, and evaluates the discriminant once. *)
C5_SwitchSelects ==
    \A d \in -1..MaxCases, n \in 1..MaxCases :
      (program = SwitchProgram(d, n) /\ Ended)
        => /\ result = Returned(Ok(ObjInt(I(10 * (Selected(d, n) + 1)))))
           /\ Evaluations(Discriminant(d)) = 1

(* the builder has not been aborted by the step *)
Survives == cfg_panic' = None

(* C6: a block's jump that has been set is never replaced: in every step of
   add_block, switch_to_block, add_instr, set_jump and set_return_block that
   the builder survives, every block that held a jump still holds that
   jump, whatever the build configuration. *)
C6_JumpWriteOnce ==
    [][Survives =>
         \A b \in 1..Len(blocks) :
           blocks[b].jump.some => (b <= Len(blocks') /\ blocks'[b].jump = blocks[b].jump)]_vars

(* C7: the return block is designated at most once: after a step that the
   builder survives, a designation that was there is still the same. *)
C7_ReturnBlockOnce ==
    [][(Survives /\ return_block_id.some) => return_block_id' = return_block_id]_vars

RECURSIVE HasComment(_)
HasComment(e) ==
    CASE e.tag = "Comment" -> TRUE
      [] e.tag = "Lambda" -> HasComment(e.body)
      [] e.tag = "Apply" -> HasComment(e.func) \/ HasComment(e.arg)
      [] e.tag = "If" ->
           HasComment(e.condition) \/ HasComment(e.consequent) \/ HasComment(e.alternative)
      [] e.tag = "Let" -> HasComment(e.value) \/ HasComment(e.body)
      [] OTHER -> FALSE

(* e with every Comment(t, inner) replaced by inner *)
RECURSIVE StripComments(_)
StripComments(e) ==
    CASE e.tag = "Comment" -> StripComments(e.inner)
      [] e.tag = "Lambda" -> lambda(e.arg, StripComments(e.body))
      [] e.tag = "Apply" -> apply(StripComments(e.func), StripComments(e.arg))
      [] e.tag = "If" ->
           if_(StripComments(e.condition), StripComments(e.consequent),
               StripComments(e.alternative))
      [] e.tag = "Let" -> let_(e.ident, StripComments(e.value), StripComments(e.body))
      [] OTHER -> e

(* C8: Comment is transparent to evaluation: where the expression without
   its comments returns a result r, the expression with them returns r. *)
C8_CommentTransparent ==
    (Ended /\ HasComment(program) /\ run(StripComments(program)).kind = "returned")
      => result = run(StripComments(program))

(* what the driver prints for a line *)
Handled(line, entries) ==
    IF ~Decoded(line).ok
    THEN entries = <<[mark |-> "!!", msg |-> Decoded(line).err]>>
    ELSE /\ Len(entries) = 2
         /\ entries[1] = [mark |-> "=>", text |-> mir_to_lexpr(Decoded(line).val)]
         /\ entries[2].mark = "=>"

(* C9: the driver handles the lines in order and reaches end of input: no
   line stops the processing of the lines after it, a line that fails to
   decode gives the error marker and the message, a line that decodes
   gives its re-encoded form and then the result of the interpreter. *)
C9_DriverHandlesEveryLine ==
    /\ driver # "panic"
    /\ driver = "done" =>
         /\ line_no = Len(lines)
         /\ \E cut \in [0..Len(lines) -> 0..Len(output)] :
              /\ cut[0] = 0
              /\ cut[Len(lines)] = Len(output)
              /\ \A i \in 1..Len(lines) :
                   /\ cut[i - 1] <= cut[i]
                   /\ Handled(lines[i], SubSeq(output, cut[i - 1] + 1, cut[i]))

Arity(p) == Len(expected_args(p))
WellTyped(p, k, obj) == check_type(expected_args(p)[k], obj)

(* e is a low-level primitive applied to an atom *)
PrimCall1(e) ==
    /\ e.tag = "Apply"
    /\ e.func.tag = "Primitive"
    /\ e.func.primitive \in LowLevel
    /\ e.arg \in Atoms

PrimCall2(e) == e.tag = "Apply" /\ PrimCall1(e.func) /\ e.arg \in Atoms

(* the object an atom evaluates to, and the iterations of the loop it takes *)
AtomValue(a) == run(a).r.val
Steps(a) == Len(RunLoop(RunStart(a), MaxSteps).trace)

(* the machine after an application whose outcome is r *)
Shows(r) ==
    IF r.ok THEN value = r.val /\ result \in {Running, Returned(Ok(r.val))}
    ELSE IF IsPanic(r) THEN result = Panicked(r.panic)
    ELSE result = Returned(Err(r.err))

(* the machine after the application of p to its first argument va *)
AfterFirst(p, va) ==
    IF Arity(p) = 2
    THEN Shows(Ok(ObjCurried(p, <<va>>)))
    ELSE Shows(fire(p, <<va>>))

(* C10: curried primitive application.  A primitive of arity 2 applied to a
   correctly typed a is the partial application holding exactly <<a>>, and
   that applied to a correctly typed b is what the primitive fires to on
   <<a, b>>, in that order; a primitive of arity 1 fires on its argument. *)
C10_CurriedApplication ==
    /\ (PrimCall1(program) /\ Len(trace) = 4 + Steps(program.arg))
         => LET p == program.func.primitive
                va == AtomValue(program.arg)
            IN  WellTyped(p, 1, va) => AfterFirst(p, va)
    /\ PrimCall2(program)
         => LET p == program.func.func.primitive
                va == AtomValue(program.func.arg)
                vb == AtomValue(program.arg)
                first == 5 + Steps(program.func.arg)
            IN  WellTyped(p, 1, va) =>
                  /\ Len(trace) = first => AfterFirst(p, va)
                  /\ (Arity(p) = 2 /\ WellTyped(p, 2, vb)
                          /\ Len(trace) = first + 2 + Steps(program.arg))
                       => Shows(fire(p, <<va, vb>>))

(* (minus 2 1) has returned 1 by way of the partial application (minus 2) *)
C10_Witness ==
    /\ program = call2(P("Minus"), IntLit(2), IntLit(1))
    /\ result = Returned(Ok(ObjInt(I(1))))
    /\ \E i \in 1..Len(trace) :
         trace[i] = ContApply(ObjCurried(Prim("Minus"), <<ObjInt(I(2))>>), top_level)

(* what run returns when the outcomes r1 then r2 are consed, r1 computed first *)
Consed(r1, r2) ==
    IF ~r1.ok THEN r1
    ELSE IF ~r2.ok THEN r2
    ELSE Ok(ObjCons(r1.val, r2.val))

Outcome(r) ==
    IF r.ok THEN Returned(Ok(r.val))
    ELSE IF IsPanic(r) THEN Panicked(r.panic)
    ELSE Returned(Err(r.err))

(* the objects bound to name in the allocated frames *)
BoundTo(name) ==
    UNION {{frames[i].bindings[j][2] :
              j \in {k \in 1..Len(frames[i].bindings) : frames[i].bindings[k][1] = name}} :
           i \in 1..Len(frames)}

(* e is (let (f (p a)) (cons (f b) (f c))), desugared *)
Reuses(e) == e.tag = "Apply" /\ e.func.tag = "Lambda" /\ e.func.arg = "f"

(* C11: applying a partial application leaves it as it was.  In the run of
   (let (f (p a)) (cons (f b) (f c))) the object bound to f is the partial
   application of p holding <<a>> before and after each application, and the
   run ends with what p gives on <<a, b>> and on <<a, c>>: the pair of the
   two results, or the first type error or abort of the two. *)
C11_PartialUnchanged ==
    Reuses(program) =>
      LET p == program.arg.func.primitive
          va == AtomValue(program.arg.arg)
          vb == AtomValue(program.func.body.func.arg.arg)
          vc == AtomValue(program.func.body.arg.arg)
          q == ObjCurried(p, <<va>>)
      IN  WellTyped(p, 1, va) =>
            /\ BoundTo("f") \subseteq {q}
            /\ Ended => result = Outcome(Consed(apply_primitive(q, vb),
                                                 apply_primitive(q, vc)))

(* (minus 2) bound to f has been applied to 1 and then to 0 *)
C11_Witness ==
    /\ program = ReuseProgram(Prim("Minus"), IntLit(2), IntLit(1), IntLit(0))
    /\ result = Returned(Ok(ObjCons(ObjInt(I(1)), ObjInt(I(2)))))
    /\ BoundTo("f") = {ObjCurried(Prim("Minus"), <<ObjInt(I(2))>>)}

(* the class a primitive expects of each of its arguments *)
ExpectedClass(p) ==
    CASE p.p \in {"Plus", "Minus", "Times", "Div", "Mod", "Eq", "Lt", "Le", "Gt", "Ge"} -> "Int"
      [] p.p \in {"Neg", "And", "Or", "Xor", "BoolToInt"} -> "Bool"
      [] p.p \in {"Car", "Cdr"} -> "Cons"
      [] p.p = "Cons" -> "Any"

Mismatch(p, obj) == ExpectedClass(p) # "Any" /\ obj.kind # ExpectedClass(p)

(* run has returned the type error of p for obj, at the iteration n of the
   loop, and has gone no further *)
TypeErrorAt(n, p, obj) ==
    Len(trace) >= n =>
      /\ Len(trace) = n
      /\ result.kind = "returned"
      /\ IsErr(result.r)
      /\ result.r.err.primitive = p
      /\ result.r.err.expected = ExpectedClass(p)
      /\ result.r.err.obj = obj

(* C12: primitive argument type check.  An argument whose kind is not the
   class the primitive expects at its position makes run return the type
   error, naming the primitive, the class and the object, in the iteration
   that supplies it: the later argument is not evaluated and nothing is
   fired. *)
C12_ArgumentTypeCheck ==
    /\ PrimCall1(program) =>
         LET p == program.func.primitive
             va == AtomValue(program.arg)
         IN  Mismatch(p, va) => TypeErrorAt(4 + Steps(program.arg), p, va)
    /\ PrimCall2(program) =>
         LET p == program.func.func.primitive
             va == AtomValue(program.func.arg)
             vb == AtomValue(program.arg)
             first == 5 + Steps(program.func.arg)
         IN  /\ Mismatch(p, va) => TypeErrorAt(first, p, va)
             /\ (Arity(p) = 2 /\ ~Mismatch(p, va) /\ Mismatch(p, vb))
                  => TypeErrorAt(first + 2 + Steps(program.arg), p, vb)

(* ((plus 1) true) has returned the type error for true *)
C12_Witness ==
    /\ program = call2(P("Plus"), IntLit(1), literal(LitBool(TRUE)))
    /\ result.kind = "returned"
    /\ IsErr(result.r)
    /\ result.r.err.obj = ObjBool(TRUE)
    /\ result.r.err.expected = "Int"

(* the iterations of the loop after the first Continuation::If was popped
   that evaluate e *)
BranchEvaluations(e) ==
    Cardinality({j \in 1..Len(trace) :
                   /\ trace[j].k = "Eval"
                   /\ trace[j].expr = e
                   /\ \E i \in 1..(j - 1) : trace[i].k = "If"})

(* C13: conditional selection.  Evaluating If(c, a, b) in E leaves c to be
   evaluated in E first, with the choice below it; when the choice is popped
   on Bool true the machine goes on with a in E alone, on Bool false with b
   in E alone, and on any other object run returns an error with nothing
   left to evaluate.  So (if c 1 2) returns 1 without evaluating 2, or 2
   without evaluating 1, or an error without evaluating either. *)
C13_ConditionalSelection ==
    /\ (trace # <<>> /\ Last(trace).k = "Eval" /\ Last(trace).expr.tag = "If")
         => /\ result = Running
            /\ Len(stack) >= 2
            /\ Top(M) = ContEval(Last(trace).expr.condition, Last(trace).environment)
            /\ stack[Len(stack) - 1] =
                 ContIf(Last(trace).expr.consequent, Last(trace).expr.alternative,
                        Last(trace).environment)
    /\ (trace # <<>> /\ Last(trace).k = "If")
         => IF value.kind = "Bool"
            THEN /\ result = Running
                 /\ Top(M) = ContEval(IF value.b THEN Last(trace).consequent
                                                ELSE Last(trace).alternative,
                                      Last(trace).environment)
            ELSE /\ result = Returned(Err([text |-> "expected a bool value, got", obj |-> value]))
                 /\ stack = <<>>
    /\ (program \in IfPrograms /\ Ended)
         => LET c == AtomValue(program.condition)
            IN  IF c.kind = "Bool"
                THEN /\ result = Returned(Ok(ObjInt(I(IF c.b THEN 1 ELSE 2))))
                     /\ BranchEvaluations(IF c.b THEN IntLit(2) ELSE IntLit(1)) = 0
                     /\ BranchEvaluations(IF c.b THEN IntLit(1) ELSE IntLit(2)) = 1
                ELSE /\ result.kind = "returned"
                     /\ IsErr(result.r)
                     /\ BranchEvaluations(IntLit(1)) = 0
                     /\ BranchEvaluations(IntLit(2)) = 0

(* (if false 1 2) has returned 2 *)
C13_Witness ==
    /\ program = if_(literal(LitBool(FALSE)), IntLit(1), IntLit(2))
    /\ result = Returned(Ok(ObjInt(I(2))))
    /\ \E i \in 1..Len(trace) : trace[i].k = "If"

(* a continuation without its environment *)
Shape(cont) ==
    CASE cont.k = "Eval" -> <<"Eval", cont.expr>>
      [] cont.k = "If" -> <<"If", cont.consequent, cont.alternative>>
      [] cont.k = "EvFun" -> <<"EvFun", cont.arg>>
      [] cont.k = "Apply" -> <<"Apply", cont.func.kind>>

(* the machine run(e) ends in *)
RunOf(e) == RunLoop(RunStart(e), MaxSteps)

(* C14: evaluation order of Apply(func, arg).  Evaluating it leaves func to
   be evaluated first with the argument waiting below; when func has a value
   the argument is evaluated with the application waiting below.  The run of
   Apply(func, arg) is therefore: the iterations of func, then those of arg,
   then the application of the value of func; and when func ends in an
   error or an abort the run ends there with it. *)
C14_ApplyOrder ==
    /\ (trace # <<>> /\ Last(trace).k = "Eval" /\ Last(trace).expr.tag = "Apply")
         => /\ result = Running
            /\ Len(stack) >= 2
            /\ Top(M) = ContEval(Last(trace).expr.func, Last(trace).environment)
            /\ stack[Len(stack) - 1] = ContEvFun(Last(trace).expr.arg, Last(trace).environment)
    /\ (trace # <<>> /\ Last(trace).k = "EvFun")
         => /\ result = Running
            /\ Len(stack) >= 2
            /\ Top(M) = ContEval(Last(trace).arg, Last(trace).environment)
            /\ stack[Len(stack) - 1] = ContApply(value, Last(trace).environment)
    /\ program.tag = "Apply"
         => LET f == RunOf(program.func)
                a == RunOf(program.arg)
                sf == Len(f.trace)
                sa == Len(a.trace)
            IN  /\ \A i \in 1..Len(trace) :
                     /\ i = 1 => trace[i] = ContEval(program, top_level)
                     /\ (2 <= i /\ i <= 1 + sf) => trace[i] = f.trace[i - 1]
                /\ IF f.result.kind = "returned" /\ f.result.r.ok
                   THEN \A i \in 1..Len(trace) :
                          /\ i = 2 + sf => trace[i] = ContEvFun(program.arg, top_level)
                          /\ (3 + sf <= i /\ i <= 2 + sf + sa)
                               => Shape(trace[i]) = Shape(a.trace[i - 2 - sf])
                          /\ (i = 3 + sf + sa /\ a.result.kind = "returned" /\ a.result.r.ok)
                               => /\ trace[i].k = "Apply"
                                  /\ trace[i].func = f.result.r.val
                                  /\ trace[i].environment = top_level
                   ELSE /\ Len(trace) <= 1 + sf
                        /\ Ended => result = f.result

(* ((lambda x x) 1) has returned 1: the function, then the argument, then
   the application *)
C14_Witness ==
    /\ program = apply(IdentityExpr, IntLit(1))
    /\ result = Returned(Ok(ObjInt(I(1))))
    /\ trace[2] = ContEval(IdentityExpr, top_level)
    /\ trace[3] = ContEvFun(IntLit(1), top_level)
    /\ trace[4] = ContEval(IntLit(1), top_level)
    /\ trace[5] = ContApply(ObjLambda(top_level, "x", Ref("x")), top_level)

(***************************************************************************)
(* SpecLexpr: lexpr_to_mir on one parsed s-expression                      *)
(***************************************************************************)
MaxOperands == 3

One == VNumber(I(1), TRUE)
Half == VNumber(I(1), FALSE)
Binding == VList(<<VSymbol("x"), One>>)

SymbolValues ==
    {VSymbol(PrimToString(p)) : p \in Primitive}
        \cup {VSymbol(s) : s \in {"x", "f", "Plus", " plus", "plus ", "bool_to_int"}}

ValueAtoms ==
    {VNull, VNil, VBool(TRUE), VBool(FALSE), One, Half, VString("note"),
     VVector, VBytes, VChar, VKeyword("let"), VKeyword("foo")}

(* what stands after the keyword of a form *)
Operands ==
    {VSymbol("x"), One, VString("note"), Binding, VList(<<One, One>>), VCons(VSymbol("x"), One)}

(* let forms whose binding has one element, three elements, a value that
   does not decode, or is no list *)
BadLets ==
    {VList(<<VKeyword("let"), b, One>>) :
        b \in {VList(<<VSymbol("x")>>), VList(<<VSymbol("x"), One, One>>),
               VList(<<VSymbol("x"), VVector>>), VNull, VVector}}

Keywords == {"let", "lambda", "if", "comment", "foo"}

KeywordForms ==
    {VList(<<VKeyword(k)>> \o ops) : k \in Keywords, ops \in SeqsUpTo(Operands, MaxOperands)}

(* the terms of an application list *)
Terms ==
    {VSymbol("f"), VSymbol("plus"), One, VKeyword("let"), VList(<<VSymbol("f"), VSymbol("x")>>)}

AppLists == {VList(q) : q \in SeqsUpTo(Terms, MaxOperands + 1) \ {<<>>}}

ImproperLists ==
    {VCons(VSymbol("f"), One), VCons(VSymbol("f"), VCons(VSymbol("x"), VSymbol("x"))),
     VCons(VKeyword("lambda"), VCons(VSymbol("x"), VCons(One, One))),
     VList(<<VSymbol("f"), VCons(VSymbol("f"), One)>>),
     VList(<<VSymbol("f"), VVector>>), VList(<<VString("note"), One>>)}

LexprValues ==
    SymbolValues \cup ValueAtoms \cup KeywordForms \cup BadLets \cup AppLists \cup ImproperLists

LexprInit ==
    /\ debug_assertions = FALSE
    /\ mir_in = literal(LitNull)
    /\ desugared = <<>>
    /\ lexpr \in {Some(v) : v \in LexprValues}
    /\ decoded = None
    /\ MiriIdle /\ CfgInit /\ DriverIdle

SpecLexpr == LexprInit /\ [][Decode]_vars

(***************************************************************************)
(* Properties, continued                                                   *)
(***************************************************************************)
(* the frames of the chain of env, head first *)
RECURSIVE Chain(_)
Chain(env) ==
    <<env>> \o (IF frames[env].parent.some THEN Chain(frames[env].parent.v) ELSE <<>>)

Binds(env, name) == \E j \in 1..Len(frames[env].bindings) : frames[env].bindings[j][1] = name

(* the positions of the chain of env whose frame binds name *)
Binders(env, name) == {i \in 1..Len(Chain(env)) : Binds(Chain(env)[i], name)}

(* the last iteration of the loop evaluated a Ref *)
RefEvaluated == trace # <<>> /\ Last(trace).k = "Eval" /\ Last(trace).expr.tag = "Ref"

(* C15: undefined reference.  Evaluating Ref(n) in an environment no frame
   of whose chain binds n makes run return an error that names n, and never
   aborts; (lambda x y) applied to any argument returns that error for y. *)
C15_UndefinedReference ==
    /\ (RefEvaluated /\ Binders(Last(trace).environment, Last(trace).expr.name) = {})
         => /\ result.kind = "returned"
            /\ IsErr(result.r)
            /\ result.r.err.name = Last(trace).expr.name
    /\ (program \in UndefinedPrograms /\ Ended)
         => /\ result.kind = "returned"
            /\ IsErr(result.r)
            /\ result.r.err.name = "y"

(* ((lambda x y) 1) has returned the error for y *)
C15_Witness ==
    /\ program = apply(lambda("x", Ref("y")), IntLit(1))
    /\ result = Returned(Err([text |-> "reference to undefined name", name |-> "y"]))
    /\ Len(frames) = 2

(* the object the frame binds name to *)
BoundIn(env, name) ==
    frames[env].bindings[CHOOSE j \in 1..Len(frames[env].bindings) :
                           frames[env].bindings[j][1] = name][2]

(* C16: shadowing.  Evaluating Ref(n) yields the object bound to n in the
   frame nearest to the head of the chain among those that bind n; and the
   desugared (let (x a) (let (x b) x)) returns b. *)
C16_Shadowing ==
    /\ (RefEvaluated /\ Binders(Last(trace).environment, Last(trace).expr.name) # {})
         => LET ch == Chain(Last(trace).environment)
                hits == Binders(Last(trace).environment, Last(trace).expr.name)
                nearest == CHOOSE i \in hits : \A j \in hits : i <= j
            IN  /\ result \in {Running, Returned(Ok(value))}
                /\ value = BoundIn(ch[nearest], Last(trace).expr.name)
    /\ (Ended /\ program.tag = "Apply" /\ program.func.tag = "Lambda")
         => \A a \in SmallInts, b \in SmallInts :
              program = ShadowProgram(a, b) => result = Returned(Ok(ObjInt(I(b))))

(* (let (x 1) (let (x 2) x)) has returned 2, looked up through two frames
   that bind x *)
C16_Witness ==
    /\ program = ShadowProgram(1, 2)
    /\ result = Returned(Ok(ObjInt(I(2))))
    /\ Len(frames) = 3
    /\ Binders(3, "x") = {1, 2}

Abs(n) == IF n < 0 THEN -n ELSE n

(* the quotient rounded toward zero, and the remainder it leaves *)
Quotient(a, b) == IF (a < 0) = (b < 0) THEN Abs(a) \div Abs(b) ELSE -(Abs(a) \div Abs(b))
Remainder(a, b) == a - b * Quotient(a, b)

Arithmetic == {"Plus", "Minus", "Times", "Div", "Mod"}
Comparison == {"Eq", "Lt", "Le", "Gt", "Ge"}

(* what (p a b) is in the integers *)
Meaning(p, a, b) ==
    CASE p = "Plus" -> ObjInt(I(a + b))
      [] p = "Minus" -> ObjInt(I(a - b))
      [] p = "Times" -> ObjInt(I(a * b))
      [] p = "Div" -> ObjInt(I(Quotient(a, b)))
      [] p = "Mod" -> ObjInt(I(Remainder(a, b)))
      [] p = "Eq" -> ObjBool(a = b)
      [] p = "Lt" -> ObjBool(a < b)
      [] p = "Le" -> ObjBool(a <= b)
      [] p = "Gt" -> ObjBool(a > b)
      [] p = "Ge" -> ObjBool(a >= b)

(* C17: arithmetic and comparison.  On small integers a and b (b # 0 for
   Div and Mod), (p a b) returns a + b, a - b, a * b, the quotient rounded
   toward zero and its remainder for Plus, Minus, Times, Div and Mod, and
   the truth of a = b, a < b, a <= b, a > b, a >= b for Eq, Lt, Le, Gt and
   Ge; the argument supplied first is the left operand: (minus 10 4) is 6. *)
C17_Arithmetic ==
    (Ended /\ program.tag = "Apply" /\ program.func.tag = "Apply") =>
      /\ \A p \in Arithmetic \cup Comparison, a \in SmallInts, b \in SmallInts :
           (program = call2(P(p), IntLit(a), IntLit(b)) /\ ~(p \in {"Div", "Mod"} /\ b = 0))
             => result = Returned(Ok(Meaning(p, a, b)))
      /\ program = MinusExample => result = Returned(Ok(ObjInt(I(6))))

(* (minus 10 4) has returned 6 *)
C17_Witness ==
    /\ program = MinusExample
    /\ result = Returned(Ok(ObjInt(I(6))))
    /\ Last(trace).k = "Apply"
    /\ Last(trace).func = ObjCurried(Prim("Minus"), <<ObjInt(I(10))>>)

(* (let (x (let (x 0) x)) x) *)
NestedLet == let_("x", let_("x", IntLit(0), Ref("x")), Ref("x"))

(* C18: desugaring is idempotent.  Desugaring the desugared form of an
   expression gives that desugared form again. *)
C18_DesugarIdempotent ==
    \A i \in 2..Len(desugared) : desugared[i] = desugared[i - 1]

(* a Let inside a Let has been desugared twice, both passes giving the two
   nested applications *)
C18_Witness ==
    /\ mir_in = NestedLet
    /\ Len(desugared) = MaxPasses
    /\ desugared[MaxPasses] =
          apply(lambda("x", Ref("x")), apply(lambda("x", Ref("x")), IntLit(0)))

(* the tree holds a higher-level primitive *)
RECURSIVE HasHighLevel(_)
HasHighLevel(e) ==
    CASE e.tag = "Primitive" -> e.primitive \in HighLevel
      [] e.tag = "Let" -> HasHighLevel(e.value) \/ HasHighLevel(e.body)
      [] e.tag = "Lambda" -> HasHighLevel(e.body)
      [] e.tag = "Apply" -> HasHighLevel(e.func) \/ HasHighLevel(e.arg)
      [] e.tag = "If" ->
           HasHighLevel(e.condition) \/ HasHighLevel(e.consequent)
               \/ HasHighLevel(e.alternative)
      [] e.tag = "Comment" -> HasHighLevel(e.inner)
      [] OTHER -> FALSE

(* C19: the tree desugar(e) holds no higher-level primitive (Get, Set, Pure,
   Lift, Then, Y), and the desugared expressions of nop() and of lift() are
   run by the interpreter without an abort. *)
C19_DesugarLowersPrimitives ==
    desugared # <<>>
      => /\ ~HasHighLevel(desugared[1])
         /\ mir_in \in {nop, Lifted} => run(desugared[1]).kind = "returned"

(* the evaluator has evaluated the node of a higher-level primitive *)
HighLevelEvaluated ==
    \E i \in 1..Len(trace) :
        /\ trace[i].k = "Eval"
        /\ trace[i].expr.tag = "Primitive"
        /\ trace[i].expr.primitive \in HighLevel

(* C20: a run in which the evaluator evaluates the node of a higher-level
   primitive (Get, Set, Pure, Lift, Then, Y) ends with an abort and returns
   neither Ok nor Err, whether the primitive is applied to an argument or is
   the whole expression. *)
C20_HighLevelAborts == (Ended /\ HighLevelEvaluated) => result.kind = "panic"

(* C21: primitive tag serialization.  Two different tags never encode to
   the same symbol; the symbol that encodes the tag t is decoded as
   Primitive(t); and a symbol that is the encoding of no tag is decoded as
   the free reference of its name. *)
C21_PrimitiveSymbols ==
    /\ \A p \in Primitive, q \in Primitive : PrimToString(p) = PrimToString(q) => p = q
    /\ (decoded.some /\ lexpr.v.v = "Symbol")
         => IF \E t \in Primitive : lexpr.v.s = PrimToString(t)
            THEN \A t \in Primitive :
                   lexpr.v.s = PrimToString(t) => decoded.v = Ok(PrimitiveExpr(t))
            ELSE decoded.v = Ok(Ref(lexpr.v.s))

(* the value is a proper list of exactly n elements *)
ListOf(v, n) == v.v = "Cons" /\ into_vec(v).rest = VNull /\ Len(into_vec(v).vec) = n

(* the s-expression is one of the shapes no MIR expression is written as:
   an unsupported object, a keyword that is not the head of a list, a list
   with an improper tail, a keyword form of an unknown keyword, with the
   wrong number of operands, with a binding that is not a proper list of two
   elements or with a non-symbol as its identifier, or a list one of whose
   terms is such a shape *)
RECURSIVE Malformed(_)
Malformed(v) ==
    CASE v.v \in {"Vector", "Bytes", "Char", "Nil", "String", "Keyword"} -> TRUE
      [] v.v = "Cons" ->
           LET l == into_vec(v)
               ops == Tail(l.vec)
           IN  \/ l.rest # VNull
               \/ IF l.vec[1].v # "Keyword"
                  THEN \E i \in 1..Len(l.vec) : Malformed(l.vec[i])
                  ELSE CASE l.vec[1].s = "let" ->
                              \/ Len(ops) # 2
                              \/ ~ListOf(ops[1], 2)
                              \/ into_vec(ops[1]).vec[1].v # "Symbol"
                              \/ Malformed(into_vec(ops[1]).vec[2])
                              \/ Malformed(ops[2])
                         [] l.vec[1].s = "lambda" ->
                              Len(ops) # 2 \/ ops[1].v # "Symbol" \/ Malformed(ops[2])
                         [] l.vec[1].s = "if" ->
                              Len(ops) # 3 \/ \E i \in 1..3 : Malformed(ops[i])
                         [] l.vec[1].s = "comment" -> Len(ops) # 2 \/ Malformed(ops[2])
                         [] OTHER -> TRUE
      [] OTHER -> FALSE

(* C22: decoding is total.  lexpr_to_mir returns Ok or Err for every
   s-expression, and Err for a keyword form with the wrong number of
   operands, a let binding that is not a proper list of two elements, a
   non-symbol identifier, an improper tail, an unknown keyword, a keyword
   outside head position, a vector, bytes, a character, nil and a bare
   string, in the s-expression itself or in any of its terms. *)
C22_DecodingTotal ==
    decoded.some
      => /\ decoded.v.ok \/ IsErr(decoded.v)
         /\ Malformed(lexpr.v) => IsErr(decoded.v)

(* (#:let (1 1) 1) has been rejected for its identifier *)
C22_Witness ==
    /\ lexpr = Some(VList(<<VKeyword("let"), VList(<<One, One>>), One>>))
    /\ decoded = Some(Err("lambda first argument must be a symbol"))

(* the application of ts[1] to ts[2], of that to ts[3], and so on *)
RECURSIVE Curried(_)
Curried(ts) ==
    IF Len(ts) = 1 THEN ts[1]
    ELSE apply(Curried(SubSeq(ts, 1, Len(ts) - 1)), ts[Len(ts)])

(* the s-expression is a proper list (f a1 ... an), n >= 1, whose head is no
   keyword and whose terms all decode *)
IsCall(v) ==
    /\ v.v = "Cons"
    /\ into_vec(v).rest = VNull
    /\ Len(into_vec(v).vec) >= 2
    /\ into_vec(v).vec[1].v # "Keyword"
    /\ \A i \in 1..Len(into_vec(v).vec) : lexpr_to_mir(into_vec(v).vec[i]).ok

(* C23: applications curry to the left.  A list (f a1 ... an), n >= 1, whose
   head is no keyword decodes to the application of the decoding of f to the
   decoding of a1, of that to the decoding of a2, and so on, so that (f a b)
   and ((f a) b) decode to the same tree; and an application is encoded as a
   list of two elements. *)
C23_CurryLeft ==
    (decoded.some /\ IsCall(lexpr.v))
      => LET ts == into_vec(lexpr.v).vec
         IN  /\ decoded.v = Ok(Curried([i \in 1..Len(ts) |-> lexpr_to_mir(ts[i]).val]))
             /\ Len(ts) = 3
                  => decoded.v = lexpr_to_mir(VList(<<VList(<<ts[1], ts[2]>>), ts[3]>>))
             /\ ListOf(mir_to_lexpr(decoded.v.val), 2)
             /\ mir_to_lexpr(decoded.v.val) =
                  VList(<<mir_to_lexpr(decoded.v.val.func), mir_to_lexpr(decoded.v.val.arg)>>)

(* (f plus 1) has been decoded as ((f plus) 1) *)
C23_Witness ==
    /\ lexpr = Some(VList(<<VSymbol("f"), VSymbol("plus"), One>>))
    /\ decoded = Some(Ok(apply(apply(Ref("f"), P("Plus")), IntLit(1))))

(* the step is a call of add_block on the builder: one more block *)
BlockAdded == compiler' = compiler /\ Len(blocks') = Len(blocks) + 1

(* the step is compile_func: a new builder and two calls of add_block *)
FuncCompiled == compiler' # compiler

(* what C24 says of every step but the identifier add_block returns: no
   block is removed or moved, the block added is empty and is the last one,
   and the identifier returned is its position and is new *)
BlocksStable ==
    /\ ~FuncCompiled => /\ Len(blocks') >= Len(blocks)
                        /\ \A b \in 1..Len(blocks) :
                             BlockAdded => blocks'[b] = blocks[b]
    /\ BlockAdded => /\ blocks'[Len(blocks')] = BasicBlock(None, None)
                     /\ new_block'.some
                     /\ new_block'.v = Len(blocks') - 1
                     /\ blocks'[new_block'.v + 1] = blocks'[Len(blocks')]
                     /\ new_block'.v \notin 0..(Len(blocks) - 1)
    /\ (~FuncCompiled /\ ~BlockAdded) => new_block' = new_block

(* C24, amended: a new builder holds block 0, so the i-th call of add_block
   (counting from 0) finds i + 1 blocks and returns i + 1; the identifiers
   are the positions in the block list, 0..number of blocks - 1, no
   operation removes or renumbers a block, and the block add_block returns
   has no instruction and no jump. *)
C24_BlockIds ==
    [][/\ BlocksStable
       /\ BlockAdded => new_block' = Some(Len(blocks))
       /\ FuncCompiled => (compiler'.current_block = 1 /\ compiler'.return_block = 2)]_vars

(* C24 as stated: the i-th call of add_block (counting from 0) returns i *)
C24_BlockIds_stated ==
    [][/\ BlocksStable
       /\ BlockAdded => new_block' = Some(Len(blocks) - 1)
       /\ FuncCompiled => (compiler'.current_block = 0 /\ compiler'.return_block = 1)]_vars

(* the first add_block on a new builder has returned 1 *)
C24_Witness ==
    /\ Len(blocks) = 2
    /\ new_block = Some(1)
    /\ compiler = [current_block |-> 0, return_block |-> 0]
    /\ blocks[2] = BasicBlock(None, None)

(* the last iteration of the loop applied an object that is no function *)
NonFunctionApplied ==
    /\ trace # <<>>
    /\ Last(trace).k = "Apply"
    /\ Last(trace).func.kind \in {"Bool", "Int", "Null", "Cons"}

(* C25: applying a non-function.  When the function position of an Apply has
   evaluated to a Bool, an Int, Null or a pair and the argument has been
   evaluated, run returns an error that names that object; and once run has
   returned an error no continuation is popped any more: what is left of the
   stack is dropped and that first error is what run returned. *)
C25_CannotApply ==
    /\ [](NonFunctionApplied
            => /\ result = Returned(Err([text |-> "cannot apply", obj |-> Last(trace).func]))
               /\ stack = <<>>)
    /\ []((Ended /\ program \in NonFunctionPrograms)
            => /\ result.kind = "returned"
               /\ IsErr(result.r)
               /\ \A i \in 1..Len(trace) :
                    trace[i].k = "EvFun" => trace[i].arg # IntLit(3))
    /\ [][(result.kind = "returned" /\ IsErr(result.r))
            => (trace' = trace /\ result' = result /\ stack' = <<>>)]_vars

(* (((cons 1) true) 2) 3): the pair applied to 2 has ended the run, the
   application to 3 left undone *)
C25_Witness ==
    /\ program = apply(apply(PairExpr, IntLit(2)), IntLit(3))
    /\ result = Returned(Err([text |-> "cannot apply",
                               obj |-> ObjCons(ObjInt(I(1)), ObjBool(TRUE))]))
    /\ NonFunctionApplied

(* C26: no host call-stack growth.  The native calls nested in one iteration
   of the loop of run do not depend on the program: the lookup of a name
   nests one activation of find_value whatever the length of the environment
   chain it walks. *)
C26_BoundedNesting ==
    RefEvaluated
      => \A d \in find_value_nesting(frames, Last(trace).environment, Last(trace).expr.name) :
           d = 1

BoolLit(b) == literal(LitBool(b))

(* C27: logic primitives.  On booleans a and b, (xor a b) is true exactly
   when a and b differ, (and a b) is a and b, (or a b) is a or b, (neg a) is
   not a, and (bool-to-int a) is 1 for true and 0 for false. *)
C27_Logic ==
    (Ended /\ program.tag = "Apply") =>
      \A a \in BOOLEAN :
        /\ program = apply(P("Neg"), BoolLit(a)) => result = Returned(Ok(ObjBool(~a)))
        /\ program = apply(P("BoolToInt"), BoolLit(a))
             => result = Returned(Ok(ObjInt(I(IF a THEN 1 ELSE 0))))
        /\ \A b \in BOOLEAN :
             /\ program = call2(P("And"), BoolLit(a), BoolLit(b))
                  => result = Returned(Ok(ObjBool(a /\ b)))
             /\ program = call2(P("Or"), BoolLit(a), BoolLit(b))
                  => result = Returned(Ok(ObjBool(a \/ b)))
             /\ program = call2(P("Xor"), BoolLit(a), BoolLit(b))
                  => result = Returned(Ok(ObjBool(a # b)))

(* the line (#:let (x 1) x) *)
LetLine == Text(mir_to_lexpr(let_("x", IntLit(1), Ref("x"))))

(* C28: desugaring precedes interpretation.  The program the driver hands to
   run is the desugared form of what the line decoded to, so that the line
   (#:let (x 1) x) is evaluated to 1 and no Let node reaches the evaluator. *)
C28_DesugarBeforeRun ==
    (driver \in {"running", "panic"} /\ line_no < Len(lines) /\ Decoded(CurrentLine).ok)
      => /\ program = desugar(Decoded(CurrentLine).val)
         /\ \A i \in 1..Len(trace) :
              trace[i].k = "Eval" => trace[i].expr.tag # "Let"
         /\ (CurrentLine = LetLine /\ Ended) => result = Returned(Ok(ObjInt(I(1))))

(* C29: the name the switch helper binds is fresh.  A candidate that refers
   to an outer variable named discriminant yields the value of that
   variable, and a candidate that is itself a switch yields inside the outer
   switch what it yields on its own. *)
C29_FreshDiscriminant ==
    (Ended /\ program \in SwitchScopePrograms)
      => \A d \in 0..1 :
           /\ program = CaptureProgram(d) => result = Returned(Ok(ObjInt(I(7))))
           /\ \A e \in 0..1 :
                program = NestedSwitchProgram(d, e) => result = run(desugar(InnerSwitch(e)))

(* the objects an object is made of, itself included: the halves of a pair
   and the arguments a partial application holds *)
RECURSIVE Parts(_)
Parts(obj) ==
    {obj} \cup
    CASE obj.kind = "Cons" -> Parts(obj.car) \cup Parts(obj.cdr)
      [] obj.kind = "CurriedPrimitive" -> UNION {Parts(obj.args[k]) : k \in 1..Len(obj.args)}
      [] OTHER -> {}

(* the objects the run holds: the register, the functions of the Apply
   continuations, the values bound in the frames, and what run returned *)
Held ==
    {value}
        \cup {stack[i].func : i \in {j \in 1..Len(stack) : stack[j].k = "Apply"}}
        \cup UNION {{frames[i].bindings[j][2] : j \in 1..Len(frames[i].bindings)} :
                       i \in 1..Len(frames)}
        \cup (IF result.kind = "returned" /\ result.r.ok THEN {result.r.val} ELSE {})

(* the number of arguments of a low-level primitive *)
Operands1 == {"Neg", "Car", "Cdr", "BoolToInt"}
ArityOf(p) == IF p.p \in Operands1 THEN 1 ELSE 2

(* C30: every partial application of a low-level primitive that a run holds,
   in the register, in an Apply continuation, in a frame, in a pair or in
   another partial application, holds fewer arguments than the arity of its
   primitive, each of the class expected at its position. *)
C30_PartialsWellFormed ==
    \A held \in Held : \A obj \in Parts(held) :
      (obj.kind = "CurriedPrimitive" /\ obj.primitive \in LowLevel)
        => /\ Len(obj.args) < ArityOf(obj.primitive)
           /\ \A k \in 1..Len(obj.args) : ~Mismatch(obj.primitive, obj.args[k])

(* ((cons neg) 1) has returned the pair of neg and 1, after the application
   of (cons neg), a partial application that holds another one *)
C30_Witness ==
    /\ program = call2(P("Cons"), P("Neg"), IntLit(1))
    /\ result = Returned(Ok(ObjCons(ObjCurried(Prim("Neg"), <<>>), ObjInt(I(1)))))
    /\ Last(trace).k = "Apply"
    /\ Last(trace).func = ObjCurried(Prim("Cons"), <<ObjCurried(Prim("Neg"), <<>>)>>)

(* the names some frame binds after the step, and one no frame binds *)
FrameNames ==
    {"unbound"} \cup UNION {{frames'[i].bindings[j][1] : j \in 1..Len(frames'[i].bindings)} :
                              i \in 1..Len(frames')}

(* the step has allocated a frame *)
Extended == Len(frames') > Len(frames)

(* C31: frames are immutable and extension is persistent.  A step of the
   run that extends an environment allocates one frame, which holds the one
   binding of the parameter to the argument and whose parent is the
   environment extended; every frame there was keeps its bindings and its
   parent, so a lookup from an environment obtained earlier gives what it
   gave before; and two extensions of one parent do not see each other's
   binding. *)
C31_FramesPersistent ==
    /\ [][/\ Len(frames') \in {Len(frames), Len(frames) + 1}
           /\ \A E \in 1..Len(frames) :
                /\ frames'[E] = frames[E]
                /\ \A n \in FrameNames : find_value(frames', E, n) = find_value(frames, E, n)
           /\ Extended
                => /\ Last(trace').k = "Apply"
                   /\ Last(trace').func.kind = "Lambda"
                   /\ frames'[Len(frames')] =
                        Environment(Some(Last(trace').environment),
                                    <<<<Last(trace').func.arg, value>>>>)]_vars
    /\ [](\A i \in 1..Len(frames), j \in 1..Len(frames) :
            (i # j /\ frames[i].parent = frames[j].parent /\ frames[i].parent.some)
              => \A k \in 1..Len(frames[j].bindings) :
                   ~Binds(i, frames[j].bindings[k][1])
                     => find_value(frames, i, frames[j].bindings[k][1])
                          = find_value(frames, frames[i].parent.v, frames[j].bindings[k][1]))
    /\ []((program = SiblingProgram /\ Ended)
            => result = Returned(Err([text |-> "reference to undefined name", name |-> "x"])))

(* the second extension of the top level has not found the x of the first *)
C31_Witness ==
    /\ program = SiblingProgram
    /\ result = Returned(Err([text |-> "reference to undefined name", name |-> "x"]))
    /\ Len(frames) = 3
    /\ frames[2] = Environment(Some(top_level), <<<<"x", ObjInt(I(1))>>>>)
    /\ frames[3] = Environment(Some(top_level), <<<<"y", ObjInt(I(2))>>>>)

(* every block but the one under the cursor is as it was *)
OtherBlocksKept ==
    /\ Len(blocks') = Len(blocks)
    /\ \A b \in 1..Len(blocks) : b # current_block + 1 => blocks'[b] = blocks[b]

(* C32: the frame of the builder's operations.  switch_to_block(id) sets
   the cursor to id and changes no block and not the return designation;
   add_instr and set_jump change at most the instruction, respectively the
   jump, of the block under the cursor, and no other block, not the other
   field of that block, not the return designation and not the cursor;
   add_block keeps the cursor, the blocks there were and the return
   designation; set_return_block changes only the return designation. *)
C32_BuilderFrame ==
    [][/\ \A id \in BlockIds :
            switch_to_block(id)
              => current_block' = id /\ UNCHANGED <<blocks, return_block_id>>
       /\ \A instr \in Instrs :
            add_instr(instr)
              => /\ UNCHANGED <<return_block_id, current_block>>
                 /\ OtherBlocksKept
                 /\ CurrentInRange
                      => /\ blocks'[current_block + 1].jump = blocks[current_block + 1].jump
                         /\ blocks'[current_block + 1].instr = Some(instr)
       /\ \A jump \in Jumps :
            set_jump(jump)
              => /\ UNCHANGED <<return_block_id, current_block>>
                 /\ OtherBlocksKept
                 /\ CurrentInRange
                      => /\ blocks'[current_block + 1].instr = blocks[current_block + 1].instr
                         /\ blocks'[current_block + 1].jump = Some(jump)
       /\ add_block
            => /\ UNCHANGED <<return_block_id, current_block>>
               /\ SubSeq(blocks', 1, Len(blocks)) = blocks
       /\ \A id \in BlockIds :
            set_return_block(id)
              => return_block_id' = Some(id) /\ UNCHANGED <<blocks, current_block>>]_vars

(* the cursor was moved to the second block, which took an instruction and
   no jump, while the first block took a jump and no instruction *)
C32_Witness ==
    /\ cfg_panic = None
    /\ Len(blocks) = 2
    /\ current_block = 1
    /\ blocks[2].instr.some /\ ~blocks[2].jump.some
    /\ blocks[1].jump.some /\ ~blocks[1].instr.some
    /\ return_block_id = Some(1)

(* C33: the instruction of a block is written once: add_instr on a block
   that holds an instruction is rejected by the fatal check, and a step the
   builder survives leaves every stored instruction in its block. *)
C33_InstrWriteOnce ==
    [][/\ \A instr \in Instrs :
            (add_instr(instr) /\ CurrentInRange /\ blocks[current_block + 1].instr.some)
              => cfg_panic' # None
       /\ Survives
            => \A b \in 1..Len(blocks) :
                 blocks[b].instr.some
                   => (b <= Len(blocks') /\ blocks'[b].instr = blocks[b].instr)]_vars

RECURSIVE HasLambda(_)
HasLambda(e) ==
    CASE e.tag = "Lambda" -> TRUE
      [] e.tag = "Apply" -> HasLambda(e.func) \/ HasLambda(e.arg)
      [] e.tag = "If" ->
           HasLambda(e.condition) \/ HasLambda(e.consequent) \/ HasLambda(e.alternative)
      [] e.tag = "Let" -> HasLambda(e.value) \/ HasLambda(e.body)
      [] e.tag = "Comment" -> HasLambda(e.inner)
      [] OTHER -> FALSE

(* no Lambda, no Let, no Comment and no higher-level primitive *)
FirstOrder(e) == Interpretable(e) /\ ~HasLambda(e)

(* C34: on an expression without Lambda, Let, Comment and higher-level
   primitive, the loop of run ends after finitely many steps by returning:
   the Ok of the current value once the stack is empty, or an Err; and what
   is returned on the empty stack is the current value the last step left. *)
C34_Terminates ==
    /\ [](FirstOrder(program) => <>(result.kind = "returned"))
    /\ [][(result = Running /\ stack = <<>> /\ result' # result)
            => result' = Returned(Ok(value))]_vars

(* the return statements: without an expression and with one *)
Returns == {ReturnStmt(None)} \cup {ReturnStmt(Some(e)) : e \in HirExprs}

(* C35: compiling a return statement, last of its sequence or not, does not
   abort, leaves the instruction of the current block set, to the Null
   literal when the return has no expression, and leaves the jump of that
   block set to Jmp(return block). *)
C35_ReturnLowered ==
    [][\A stmt \in Returns, last \in BOOLEAN :
         CompileStmt(stmt, last)
           => /\ Survives
              /\ CurrentInRange
              /\ blocks'[current_block + 1].instr.some
              /\ ~stmt.expr.some
                   => blocks'[current_block + 1].instr
                        = Some(create_res_lambda(literal(LitNull)))
              /\ blocks'[current_block + 1].jump = Some(Jmp(compiler.return_block))]_vars

(* the slots the table holds *)
SlotsOf(positions) == {positions[n].v : n \in {m \in Identifiers : positions[m].some}}

(* C36: a declaration statement gives its name a slot that no earlier
   declaration was given and emits no instruction; a declaration through
   declare_stack that takes a slot takes one that the table did not hold;
   and once the scope of a compound statement has ended the table maps
   every name to the slot it had before the compound statement. *)
C36_StackSlots ==
    [][/\ \A n \in Identifiers, last \in BOOLEAN :
            CompileStmt(DeclStmt(n), last)
              => /\ blocks' = blocks
                 /\ stack_positions'[n].some
                 /\ stack_positions'[n].v \notin SlotsOf(stack_positions)
       /\ \A decl \in Declarations :
            (declare_stack(decl) /\ next_stack_slot' # next_stack_slot)
              => /\ blocks' = blocks
                 /\ stack_positions'[decl.id].some
                 /\ stack_positions'[decl.id].v \notin SlotsOf(stack_positions)
       /\ \A n \in Identifiers, last \in BOOLEAN :
            CompileStmt(Compound(<<DeclStmt(n)>>), last)
              => stack_positions' = stack_positions]_vars

(* the run of the operator of an application, and the run of its operand
   that follows it: on the allocations and with the register that the
   operator's run has left *)
FuncRun(e) == RunLoop(RunStart(e.func), MaxSteps)
ArgRun(e) ==
    RunLoop(Machine(<<ContEval(e.arg, top_level)>>, FuncRun(e).value, FuncRun(e).frames,
                    Running, <<>>), MaxSteps)

(* C37: at the head of the loop the stack holds at most one Eval
   continuation, and that one is the top entry; so when the If, the EvFun
   or the Apply of the root expression is the next to be popped, the
   register holds the value of the expression it was waiting for: the
   condition, the operator, the operand. *)
C37_OneEvalOnTop ==
    result = Running
      => /\ \A i \in 1..(Len(stack) - 1) : stack[i].k # "Eval"
         /\ (program.tag = "If"
               /\ stack = <<ContIf(program.consequent, program.alternative, top_level)>>)
              => run(program.condition) = Returned(Ok(value))
         /\ (program.tag = "Apply" /\ stack = <<ContEvFun(program.arg, top_level)>>)
              => run(program.func) = Returned(Ok(value))
         /\ (program.tag = "Apply" /\ Len(stack) = 1 /\ stack[1].k = "Apply"
               /\ stack[1].environment = top_level)
              => /\ stack[1].func = FuncRun(program).value
                 /\ value = ArgRun(program).value
                 /\ frames = ArgRun(program).frames

(* the Apply of ((minus 10) 4) is the next to be popped, with 4 in the register *)
C37_Witness ==
    /\ program = MinusExample
    /\ result = Running
    /\ stack = <<ContApply(ObjCurried(Prim("Minus"), <<ObjInt(I(10))>>), top_level)>>
    /\ value = ObjInt(I(4))

(* the panics of expected_args[arg_pos], get_int, get_bool and get_pair *)
FiringAborts == {"index out of bounds", "expected int", "expected bool", "expected pair"}

(* the loop is about to apply a partial application of a low-level primitive *)
EnteringPrimitive ==
    /\ Applying(M, {"CurriedPrimitive"})
    /\ Top(M).func.primitive \in LowLevel

(* C38: when apply_primitive is entered on a low-level tag, the number of
   arguments held is below the length of the tag's expected-type list and
   every argument held is of the kind its position expects; the call then
   does not abort in the index, in get_int, in get_bool or in get_pair, and
   no run ends with one of these aborts. *)
C38_FiringCannotAbort ==
    /\ EnteringPrimitive
         => /\ Len(Top(M).func.args) < Len(expected_args(Top(M).func.primitive))
            /\ \A i \in 1..Len(Top(M).func.args) :
                 check_type(expected_args(Top(M).func.primitive)[i], Top(M).func.args[i])
            /\ IsPanic(apply_primitive(Top(M).func, value))
                 => apply_primitive(Top(M).func, value).panic \notin FiringAborts
    /\ result.kind = "panic" => result.msg \notin FiringAborts

(* Car has fired on the pair (1 . true): get_pair was given a pair *)
C38_Witness ==
    /\ trace # <<>>
    /\ Last(trace).k = "Apply"
    /\ Last(trace).func = ObjCurried(Prim("Car"), <<>>)
    /\ program = apply(P("Car"), PairExpr)
    /\ result = Returned(Ok(ObjInt(I(1))))

====
